---- MODULE Spec2Model ----
(***************************************************************************)
(* Rule-based anomaly detection pipeline of the variance-analysis tool:    *)
(* VarianceAnalyzer, CorrelationEngine and AnomalyDetector over a          *)
(* two-period snapshot and a Settings object.                              *)
(*                                                                         *)
(* Numbers.  Monetary values are integers.  A percentage is an exact       *)
(* rational [n, d] with d > 0 in lowest terms, so ((c - p) / |p|) * 100    *)
(* is computed without rounding; thresholds are whole percents.            *)
(* An Optional value is a sequence: <<>> for None, <<v>> for v.            *)
(* A dict is a function; d.get(k, default) is Get(d, k, default).          *)
(***************************************************************************)
EXTENDS Integers, Sequences, FiniteSets, TLC

VARIABLES
    pc,                  \* position of the run
    settings,            \* Settings: thresholds and account_mappings
    financial_data,      \* FinancialData: balance_sheet, income_statement
    rules,               \* CorrelationEngine.rules
    variance_results,    \* list of VarianceResult
    correlation_results, \* list of CorrelationResult
    anomalies,           \* list of Anomaly returned by detect
    call,                \* arguments of a direct call of one function
    check_result,        \* its return value (Optional)
    first_run,           \* what an earlier run of the pipeline returned (Optional)
    batch                \* BatchProcessor: the files, their futures and the results

vars == <<pc, settings, financial_data, rules, variance_results,
          correlation_results, anomalies, call, check_result, first_run, batch>>

-----------------------------------------------------------------------------
(* Arithmetic helpers *)

Abs(x) == IF x < 0 THEN -x ELSE x

RECURSIVE GCD(_, _)
GCD(a, b) == IF b = 0 THEN a ELSE GCD(b, a % b)

\* the rational n/d (d > 0) in lowest terms
Rat(n, d) ==
    LET g == GCD(Abs(n), d)
    IN  [n |-> n \div g, d |-> d \div g]

\* delta / base * 100 (base > 0), reduced before the product is formed
Percent(delta, base) ==
    LET g == GCD(Abs(delta), base)
    IN  Rat((delta \div g) * 100, base \div g)

RInt(k) == [n |-> k, d |-> 1]
RAbs(x) == [n |-> Abs(x.n), d |-> x.d]
\* comparisons of a rational with a whole number k
RGt(x, k) == x.n > k * x.d
RGe(x, k) == x.n >= k * x.d
RLt(x, k) == x.n < k * x.d
\* comparison of two rationals
RLess(x, y) == x.n * y.d < y.n * x.d

Get(dict, key, default) == IF key \in DOMAIN dict THEN dict[key] ELSE default

None == <<>>
Some(v) == <<v>>

-----------------------------------------------------------------------------
(* Settings *)

\* Settings._default_thresholds, VARIANCE_THRESHOLD and CRITICAL_THRESHOLD unset
DefaultThresholds ==
    [variance_threshold |-> 5,
     critical_threshold |-> 10,
     recurring_accounts |->
        [depreciation |-> 5, revenue |-> 5, opex |-> 5,
         interest_expense |-> 5, interest_income |-> 5]]

\* Settings._default_account_mappings
DefaultAccountMappings ==
    [balance_sheet |->
        [investment_properties |-> <<"217000001", "217000006">>,
         borrowings |-> <<"341160000", "341160001">>,
         cash_deposits |-> <<"112227001", "112227002">>,
         trade_receivables |-> <<"131100001">>,
         unbilled_revenue |-> <<"138900003">>,
         vat_deductible |-> <<"133100001">>],
     income_statement |->
        [depreciation |-> <<"632100001", "632100002">>,
         interest_expense |-> <<"635000005", "635000006">>,
         interest_income |-> <<"515100001">>,
         revenue |-> <<"511100001", "511100002">>,
         opex |-> <<"622000001", "622000002">>]]

DefaultSettings ==
    [thresholds |-> DefaultThresholds, account_mappings |-> DefaultAccountMappings]

EmptyDict == [k \in {} |-> 0]

GetVarianceThreshold(s, account_category) ==
    LET account_tolerances == Get(s.thresholds, "account_tolerances", EmptyDict)
        recurring_accounts == Get(s.thresholds, "recurring_accounts", EmptyDict)
    IN  IF account_category # None /\ account_category[1] \in DOMAIN account_tolerances
        THEN account_tolerances[account_category[1]]
        ELSE IF account_category # None /\ account_category[1] \in DOMAIN recurring_accounts
        THEN recurring_accounts[account_category[1]]
        ELSE Get(s.thresholds, "variance_threshold", 5)

GetCorrelationThreshold(s) ==
    Get(Get(s.thresholds, "correlation_thresholds", EmptyDict),
        "global_correlation_threshold", 5)

DefaultSeverityLevels ==
    [critical |-> [variance_threshold |-> 20, absolute_threshold |-> 1000000],
     high |-> [variance_threshold |-> 10, absolute_threshold |-> 500000],
     medium |-> [variance_threshold |-> 5, absolute_threshold |-> 100000]]

GetSeverityThresholds(s) ==
    Get(s.thresholds, "severity_levels", DefaultSeverityLevels)

GetRecurringAccountCodes(s) ==
    Get(Get(s.account_mappings, "analysis_categories", EmptyDict),
        "recurring_accounts", <<>>)

GetCyclicalAccountCodes(s) ==
    Get(Get(s.account_mappings, "analysis_categories", EmptyDict),
        "cyclical_accounts", <<>>)

\* x in list
InList(x, list) == \E i \in 1..Len(list) : list[i] = x

-----------------------------------------------------------------------------
(* AccountMapper *)

AccountInfo(code, name, category, statement_type, is_recurring) ==
    [code |-> code, name |-> name, category |-> category,
     statement_type |-> statement_type, is_recurring |-> is_recurring]

InitializeAccounts == <<
    AccountInfo("217000001", "Investment Properties: Land Use Rights", "investment_properties", "BS", FALSE),
    AccountInfo("217000006", "Investment Properties: Office Building", "investment_properties", "BS", FALSE),
    AccountInfo("112227001", "ACB: Current Account USD - HCM", "cash_deposits", "BS", FALSE),
    AccountInfo("112227002", "ACB: Current Account USD - HCM 2", "cash_deposits", "BS", FALSE),
    AccountInfo("131100001", "Trade Receivable: Tenant", "trade_receivables", "BS", FALSE),
    AccountInfo("138900003", "Unbilled Revenue Receivables", "unbilled_revenue", "BS", FALSE),
    AccountInfo("133100001", "VAT Deductible", "vat_deductible", "BS", FALSE),
    AccountInfo("138820000", "LT: Other Receivables: Subsidiaries/Parents - SHL", "lending", "BS", FALSE),
    AccountInfo("138821001", "LT: Other Receivables: Subsidiaries/Parents - SHL 2", "lending", "BS", FALSE),
    AccountInfo("341160000", "LT: Borrowings: Subsidiaries/Parents", "borrowings", "BS", FALSE),
    AccountInfo("341160001", "LT: Borrowings: Subsidiaries/Parents 2", "borrowings", "BS", FALSE),
    AccountInfo("213100001", "Unearned Revenue", "unearned_revenue", "BS", FALSE),
    AccountInfo("511100001", "Rental Revenue", "revenue", "IS", TRUE),
    AccountInfo("511100002", "Service Revenue", "revenue", "IS", TRUE),
    AccountInfo("515100001", "Financial Income: Interest", "interest_income", "IS", TRUE),
    AccountInfo("515600000", "Financial Income: BCC Interest", "interest_income_shl", "IS", TRUE),
    AccountInfo("632100001", "Expense Amortization: Land Use Rights", "depreciation", "IS", TRUE),
    AccountInfo("632100002", "Expense Amortization: Building", "depreciation", "IS", TRUE),
    AccountInfo("635000005", "Financial Expenses: Loan Interest - Parent/Subsi", "interest_expense", "IS", TRUE),
    AccountInfo("635000006", "Financial Expenses: Loan Interest - Bank", "interest_expense", "IS", TRUE),
    AccountInfo("622000001", "Operating Expenses: Insurance", "opex", "IS", TRUE),
    AccountInfo("622000002", "Operating Expenses: Utilities", "opex", "IS", TRUE),
    AccountInfo("622000003", "Operating Expenses: R&M", "opex", "IS", TRUE),
    AccountInfo("641100001", "FX Gain/Loss", "fx_gain_loss", "IS", FALSE) >>

\* code_to_info.get(account_code): Optional AccountInfo
GetAccountInfo(account_code) ==
    LET hits == SelectSeq(InitializeAccounts, LAMBDA acc : acc.code = account_code)
    IN  IF hits = <<>> THEN None ELSE Some(hits[Len(hits)])

\* faulty variant: the investment properties are also filed as new leases
MapperAccountsByCategory_NewLeases(category) ==
    LET hits == SelectSeq(InitializeAccounts,
                    LAMBDA acc : \/ acc.category = category
                                 \/ category = "new_leases" /\ acc.category = "investment_properties")
    IN  [i \in 1..Len(hits) |-> hits[i].code]

\* category_to_codes.get(category, []): the codes in catalog order
MapperAccountsByCategory(category) ==
    LET hits == SelectSeq(InitializeAccounts, LAMBDA acc : acc.category = category)
    IN  [i \in 1..Len(hits) |-> hits[i].code]

-----------------------------------------------------------------------------
(* utils.calculations *)

\* faulty variant: a move from or to zero is not a sign change
has_sign_change_OppositeOnly(current, previous) ==
    IF previous > 0 /\ current < 0 THEN TRUE
    ELSE IF previous < 0 /\ current > 0 THEN TRUE
    ELSE FALSE

has_sign_change(current, previous) ==
    IF previous = 0 /\ current # 0 THEN TRUE
    ELSE IF previous # 0 /\ current = 0 THEN TRUE
    ELSE IF previous > 0 /\ current < 0 THEN TRUE
    ELSE IF previous < 0 /\ current > 0 THEN TRUE
    ELSE FALSE


\* faulty variant: divides by previous instead of |previous|
calculate_variance_percentage_NoAbs(current, previous) ==
    IF previous = 0
    THEN (IF current # 0 THEN RInt(100) ELSE RInt(0))
    ELSE IF previous > 0
    THEN Rat((current - previous) * 100, previous)
    ELSE Rat(-((current - previous) * 100), -previous)

calculate_variance_percentage(current, previous) ==
    IF previous = 0
    THEN (IF current # 0 THEN RInt(100) ELSE RInt(0))
    ELSE Percent(current - previous, Abs(previous))

calculate_variance_amount(current, previous) == current - previous

-----------------------------------------------------------------------------
(* VarianceAnalyzer.  A DataFrame is [columns, periods, rows]: its text    *)
(* columns, the labels of its numeric period columns in column order and   *)
(* its rows, each [account_code, account_name, values] with values aligned *)
(* to periods.  pd.DataFrame() is [columns |-> {}, periods |-> <<>>,       *)
(* rows |-> <<>>].                                                         *)

\* the thresholds written into _is_variance_significant
category_thresholds ==
    [opex |-> 10, staff_costs |-> 10, other_expenses |-> 10,
     borrowings |-> 2, depreciation |-> 5]


\* faulty variant: no sign-change shortcut
IsVarianceSignificant_ThresholdOnly(s, current_value, previous_value, variance_percent, category) ==
    LET configured == GetVarianceThreshold(s, Some(category))
        threshold == IF category \in DOMAIN category_thresholds
                     THEN category_thresholds[category]
                     ELSE configured
    IN  RGe(RAbs(variance_percent), threshold)

IsVarianceSignificant(s, current_value, previous_value, variance_percent, category) ==
    IF has_sign_change(current_value, previous_value)
    THEN TRUE
    ELSE LET configured == GetVarianceThreshold(s, Some(category))
             threshold == IF category \in DOMAIN category_thresholds
                          THEN category_thresholds[category]
                          ELSE configured
         IN  RGe(RAbs(variance_percent), threshold)

\* faulty variant: a row without an account code is analysed like any other
AnalyzeRow_KeepsEmptyCode(s, row, statement_type, previous_idx, current_idx, periods) ==
    LET account_info == GetAccountInfo(row.account_code)
        category == IF account_info # None THEN account_info[1].category ELSE "unknown"
        current_value == row.values[current_idx]
        previous_value == row.values[previous_idx]
        variance_percent == calculate_variance_percentage(current_value, previous_value)
    IN  Some([account_code |-> row.account_code,
              account_name |-> row.account_name,
              category |-> category,
              statement_type |-> statement_type,
              current_value |-> current_value,
              previous_value |-> previous_value,
              variance_amount |-> calculate_variance_amount(current_value, previous_value),
              variance_percent |-> variance_percent,
              is_significant |-> IsVarianceSignificant(
                   s, current_value, previous_value, variance_percent, category),
              period_from |-> periods[previous_idx],
              period_to |-> periods[current_idx]])

\* the body of the row loop of _analyze_statement: Optional VarianceResult
AnalyzeRow(s, row, statement_type, previous_idx, current_idx, periods) ==
    LET account_code == row.account_code
        account_info == GetAccountInfo(account_code)
        category == IF account_info # None THEN account_info[1].category ELSE "unknown"
        current_value == row.values[current_idx]
        previous_value == row.values[previous_idx]
        variance_amount == calculate_variance_amount(current_value, previous_value)
        variance_percent == calculate_variance_percentage(current_value, previous_value)
    IN  IF account_code \in {"", "nan", "None"}
        THEN None
        ELSE Some([account_code |-> account_code,
                   account_name |-> row.account_name,
                   category |-> category,
                   statement_type |-> statement_type,
                   current_value |-> current_value,
                   previous_value |-> previous_value,
                   variance_amount |-> variance_amount,
                   variance_percent |-> variance_percent,
                   is_significant |-> IsVarianceSignificant(
                        s, current_value, previous_value, variance_percent, category),
                   period_from |-> periods[previous_idx],
                   period_to |-> periods[current_idx]])

RECURSIVE AnalyzeRows(_, _, _, _, _)
AnalyzeRows(s, df, statement_type, i, results) ==
    IF i > Len(df.rows)
    THEN results
    ELSE AnalyzeRows(s, df, statement_type, i + 1,
            results \o AnalyzeRow(s, df.rows[i], statement_type,
                                  Len(df.periods) - 1, Len(df.periods), df.periods))

\* the columns the conversion attempt accepts when fewer than two columns
\* are numeric: the text columns of a frame (statement_type) hold no number,
\* so these are the numeric columns again
PotentialNumericCols(df) == df.periods

\* df is None or df.empty, the required columns, the period columns, the
\* row loop over the last two of them
AnalyzeStatement(s, df, statement_type) ==
    IF df = None
    THEN <<>>
    ELSE IF df.rows = <<>> \/ (df.columns = {} /\ df.periods = <<>>)
    THEN <<>>
    ELSE IF ~({"account_code", "account_name"} \subseteq df.columns)
    THEN <<>>
    ELSE IF Len(df.periods) < 2 /\ Len(PotentialNumericCols(df)) < 2
    THEN <<>>
    ELSE AnalyzeRows(s, df, statement_type, 1, <<>>)

VarianceAnalyze(s, fd) ==
    AnalyzeStatement(s, fd.balance_sheet, "BS")
        \o AnalyzeStatement(s, fd.income_statement, "IS")

-----------------------------------------------------------------------------
(* CorrelationEngine: the rules *)

Rule(id, name, primary, correlated, relationship) ==
    [id |-> id, name |-> name,
     primary_account_category |-> primary,
     correlated_account_category |-> correlated,
     relationship_type |-> relationship,
     enabled |-> TRUE]

InitializeRules == <<
    Rule(1, "Investment Properties vs Depreciation", "investment_properties", "depreciation", "positive"),
    Rule(2, "Loan Balance vs Interest Expenses", "borrowings", "interest_expense", "positive"),
    Rule(3, "Cash Deposits vs Bank Interest Income", "cash_deposits", "interest_income", "positive"),
    Rule(4, "Trade Receivables vs Quarterly Billing", "trade_receivables", "revenue", "quarterly_cycle"),
    Rule(5, "Unbilled Revenue vs Quarter Timing", "unbilled_revenue", "revenue", "quarterly_cycle"),
    Rule(6, "Unearned Revenue vs Advance Collection", "unearned_revenue", "revenue", "quarterly_cycle"),
    Rule(7, "Construction in Progress + IP vs VAT Deductible", "investment_properties", "vat_deductible", "positive"),
    Rule(8, "Occupancy Rate vs Revenue", "occupancy_rate", "revenue", "positive"),
    Rule(9, "Maintenance Expenses vs OPEX", "maintenance_expense", "opex", "positive"),
    Rule(10, "Asset Disposal vs Depreciation", "asset_disposal", "depreciation", "negative"),
    Rule(11, "New Lease Contracts vs Revenue", "new_leases", "revenue", "positive"),
    Rule(12, "Lease Termination vs Revenue", "lease_termination", "revenue", "negative"),
    Rule(13, "FX Rate Changes vs FX Gain/Loss", "fx_volatility", "fx_gain_loss", "conditional") >>

-----------------------------------------------------------------------------
(* CorrelationEngine: the violation checks.  Each returns None or          *)
(* Some([description, severity]); description is the name of the message   *)
(* template the branch formats.                                            *)

\* the threshold of the positive and negative checks
CheckThreshold == 5


\* faulty variant: the severity of a lagging decrease tests primary_var, not its magnitude
CheckPositiveRelationship_NoAbs(rule, primary_var, correlated_var) ==
    LET threshold == CheckThreshold
    IN  IF RGt(primary_var, threshold) /\ RLt(RAbs(correlated_var), threshold)
        THEN Some([description |-> "increased but changed only",
                   severity |-> IF RGt(primary_var, 10) THEN "high" ELSE "medium"])
        ELSE IF RLt(primary_var, -threshold) /\ RLt(RAbs(correlated_var), threshold)
        THEN Some([description |-> "decreased but changed only",
                   severity |-> IF RGt(primary_var, 10) THEN "high" ELSE "medium"])
        ELSE IF RGt(primary_var, threshold) /\ RLt(correlated_var, -threshold)
        THEN Some([description |-> "increased but decreased", severity |-> "high"])
        ELSE IF RLt(primary_var, -threshold) /\ RGt(correlated_var, threshold)
        THEN Some([description |-> "decreased but increased", severity |-> "high"])
        ELSE None

CheckPositiveRelationship(rule, primary_var, correlated_var) ==
    LET threshold == CheckThreshold
    IN  IF RGt(primary_var, threshold) /\ RLt(RAbs(correlated_var), threshold)
        THEN Some([description |-> "increased but changed only",
                   severity |-> IF RGt(primary_var, 10) THEN "high" ELSE "medium"])
        ELSE IF RLt(primary_var, -threshold) /\ RLt(RAbs(correlated_var), threshold)
        THEN Some([description |-> "decreased but changed only",
                   severity |-> IF RGt(RAbs(primary_var), 10) THEN "high" ELSE "medium"])
        ELSE IF RGt(primary_var, threshold) /\ RLt(correlated_var, -threshold)
        THEN Some([description |-> "increased but decreased", severity |-> "high"])
        ELSE IF RLt(primary_var, -threshold) /\ RGt(correlated_var, threshold)
        THEN Some([description |-> "decreased but increased", severity |-> "high"])
        ELSE None


\* faulty variant: only joint increases are reported
CheckNegativeRelationship_IncreaseOnly(rule, primary_var, correlated_var) ==
    LET threshold == CheckThreshold
    IN  IF RGt(primary_var, threshold) /\ RGt(correlated_var, threshold)
        THEN Some([description |-> "both increased", severity |-> "high"])
        ELSE None

CheckNegativeRelationship(rule, primary_var, correlated_var) ==
    LET threshold == CheckThreshold
    IN  IF RGt(primary_var, threshold) /\ RGt(correlated_var, threshold)
        THEN Some([description |-> "both increased", severity |-> "high"])
        ELSE IF RLt(primary_var, -threshold) /\ RLt(correlated_var, -threshold)
        THEN Some([description |-> "both decreased", severity |-> "high"])
        ELSE None


\* faulty variant: a swing is reported only when the correlated account lags
CheckQuarterlyCycle_Lagging(rule, primary_var, correlated_var) ==
    IF RGt(RAbs(primary_var), 20) /\ RLt(RAbs(correlated_var), 20)
    THEN Some([description |-> "large variance in cyclical account", severity |-> "medium"])
    ELSE None

CheckQuarterlyCycle(rule, primary_var, correlated_var) ==
    IF RGt(RAbs(primary_var), 20)
    THEN Some([description |-> "large variance in cyclical account", severity |-> "medium"])
    ELSE None

CheckConditionalRelationship(rule, primary_var, correlated_var) ==
    IF RGt(RAbs(primary_var), 10) /\ RLt(RAbs(correlated_var), 2)
    THEN Some([description |-> "high volatility but minimal response", severity |-> "medium"])
    ELSE None

CheckRuleViolation(rule, primary_variance, correlated_variance) ==
    IF rule.relationship_type = "positive"
    THEN CheckPositiveRelationship(rule, primary_variance, correlated_variance)
    ELSE IF rule.relationship_type = "negative"
    THEN CheckNegativeRelationship(rule, primary_variance, correlated_variance)
    ELSE IF rule.relationship_type = "quarterly_cycle"
    THEN CheckQuarterlyCycle(rule, primary_variance, correlated_variance)
    ELSE IF rule.relationship_type = "conditional"
    THEN CheckConditionalRelationship(rule, primary_variance, correlated_variance)
    ELSE None

-----------------------------------------------------------------------------
(* CorrelationEngine.analyze *)

\* pd.concat of the two statements; the statements of a snapshot either
\* share their period columns or are the empty pd.DataFrame()
CombineFinancialData(fd) ==
    [columns |-> fd.balance_sheet.columns \cup fd.income_statement.columns,
     periods |-> IF fd.balance_sheet.periods # <<>>
                 THEN fd.balance_sheet.periods
                 ELSE fd.income_statement.periods,
     rows |-> fd.balance_sheet.rows \o fd.income_statement.rows]

\* a category argument that is a Python list of categories, written as
\* Python writes it, with the categories it lists; any other value is a str
ListCategories ==
    ("['investment_properties']" :> <<"investment_properties">>)
    @@ ("['investment_properties', 'cash_deposits']"
            :> <<"investment_properties", "cash_deposits">>)

\* category_to_codes.get(category, []) hashes its key: TypeError
\* (unhashable type: 'list') when the category is a list
MapperAccountsByCategoryRaises(category) == category \in DOMAIN ListCategories

\* the catalog codes of the category that occur in the data, in catalog order
GetAccountsByCategory(data, category) ==
    SelectSeq(MapperAccountsByCategory(category),
              LAMBDA code : \E i \in 1..Len(data.rows) : data.rows[i].account_code = code)

\* the mapper lookup raises on a list; data['account_code'] is evaluated
\* once per catalog code: KeyError when the frame has no such column
GetAccountsByCategoryRaises(data, category) ==
    \/ MapperAccountsByCategoryRaises(category)
    \/ /\ MapperAccountsByCategory(category) # <<>>
       /\ "account_code" \notin data.columns

\* variance percent of the first row of the account: Optional rational
CalculateVariance(data, account_code, current_idx, previous_idx) ==
    LET account_row == SelectSeq(data.rows, LAMBDA r : r.account_code = account_code)
    IN  IF account_row = <<>>
        THEN None
        ELSE LET current_value == account_row[1].values[current_idx]
                 previous_value == account_row[1].values[previous_idx]
             IN  IF previous_value # 0
                 THEN Some(Percent(current_value - previous_value, Abs(previous_value)))
                 ELSE Some(IF current_value # 0 THEN RInt(100) ELSE RInt(0))

\* the body of the pair loop of _analyze_rule: the results it appends
AnalyzePair(rule, data, primary_account, correlated_account) ==
    LET primary_variance ==
            CalculateVariance(data, primary_account, Len(data.periods), Len(data.periods) - 1)
        correlated_variance ==
            CalculateVariance(data, correlated_account, Len(data.periods), Len(data.periods) - 1)
    IN  IF primary_variance = None \/ correlated_variance = None
        THEN <<>>
        ELSE LET violation_result ==
                    CheckRuleViolation(rule, primary_variance[1], correlated_variance[1])
             IN  IF violation_result = None
                 THEN <<>>
                 ELSE << [rule_id |-> rule.id,
                          rule_name |-> rule.name,
                          primary_account |-> primary_account,
                          correlated_account |-> correlated_account,
                          primary_variance |-> primary_variance[1],
                          correlated_variance |-> correlated_variance[1],
                          expected_relationship |-> rule.relationship_type,
                          is_violation |-> TRUE,
                          violation_description |-> violation_result[1].description,
                          severity |-> violation_result[1].severity] >>

\* faulty variant: the correlated accounts drive the outer loop
RECURSIVE AnalyzePairs_CorrelatedFirst(_, _, _, _, _, _, _)
AnalyzePairs_CorrelatedFirst(rule, data, primary_accounts, correlated_accounts, i, j, results) ==
    IF j > Len(correlated_accounts)
    THEN results
    ELSE IF i > Len(primary_accounts)
    THEN AnalyzePairs_CorrelatedFirst(rule, data, primary_accounts, correlated_accounts,
            1, j + 1, results)
    ELSE AnalyzePairs_CorrelatedFirst(rule, data, primary_accounts, correlated_accounts,
            i + 1, j,
            results \o AnalyzePair(rule, data, primary_accounts[i], correlated_accounts[j]))

\* the two nested loops of _analyze_rule
RECURSIVE AnalyzePairs(_, _, _, _, _, _, _)
AnalyzePairs(rule, data, primary_accounts, correlated_accounts, i, j, results) ==
    IF i > Len(primary_accounts)
    THEN results
    ELSE IF j > Len(correlated_accounts)
    THEN AnalyzePairs(rule, data, primary_accounts, correlated_accounts, i + 1, 1, results)
    ELSE AnalyzePairs(rule, data, primary_accounts, correlated_accounts, i, j + 1,
            results \o AnalyzePair(rule, data, primary_accounts[i], correlated_accounts[j]))

AnalyzeRule(rule, data) ==
    LET primary_accounts == GetAccountsByCategory(data, rule.primary_account_category)
        correlated_accounts == GetAccountsByCategory(data, rule.correlated_account_category)
    IN  IF primary_accounts = <<>> \/ correlated_accounts = <<>>
        THEN <<>>
        ELSE IF Len(data.periods) < 2
        THEN <<>>
        ELSE AnalyzePairs(rule, data, primary_accounts, correlated_accounts, 1, 1, <<>>)

AnalyzeRuleRaises(rule, data) ==
    \/ GetAccountsByCategoryRaises(data, rule.primary_account_category)
    \/ GetAccountsByCategoryRaises(data, rule.correlated_account_category)


\* faulty variant: the enabled flag is not consulted
RECURSIVE AnalyzeRules_AllRules(_, _, _, _)
AnalyzeRules_AllRules(rs, data, i, results) ==
    IF i > Len(rs)
    THEN results
    ELSE AnalyzeRules_AllRules(rs, data, i + 1, results \o AnalyzeRule(rs[i], data))

\* the rule loop of analyze
RECURSIVE AnalyzeRules(_, _, _, _)
AnalyzeRules(rs, data, i, results) ==
    IF i > Len(rs)
    THEN results
    ELSE IF ~rs[i].enabled
    THEN AnalyzeRules(rs, data, i + 1, results)
    ELSE AnalyzeRules(rs, data, i + 1, results \o AnalyzeRule(rs[i], data))

CorrelationAnalyze(rs, fd) == AnalyzeRules(rs, CombineFinancialData(fd), 1, <<>>)

CorrelationAnalyzeRaises(rs, fd) ==
    \E i \in 1..Len(rs) :
        rs[i].enabled /\ AnalyzeRuleRaises(rs[i], CombineFinancialData(fd))

-----------------------------------------------------------------------------
(* rule_violations: the registry *)

RuleViolation(rule_id, rule_name, category) ==
    [rule_id |-> rule_id, rule_name |-> rule_name, category |-> category]

ALL_RULES == <<
    RuleViolation("VT001", "General Variance Threshold", "variance_threshold"),
    RuleViolation("VT002", "G&A Account Variance Threshold", "variance_threshold"),
    RuleViolation("VT003", "Borrowings Strict Threshold", "variance_threshold"),
    RuleViolation("VT004", "Recurring Account Stability Threshold", "variance_threshold"),
    RuleViolation("VT005", "Depreciation Stability Threshold", "variance_threshold"),
    RuleViolation("SC001", "Account Sign Change Detection", "sign_change"),
    RuleViolation("SC002", "Zero Balance Change Detection", "sign_change"),
    RuleViolation("RA001", "Recurring Account Anomaly", "recurring_account"),
    RuleViolation("QP001", "Quarterly Billing Cycle Deviation", "quarterly_pattern"),
    RuleViolation("QP002", "Cyclical Account Pattern Break", "quarterly_pattern"),
    RuleViolation("MT001", "High Materiality Account Variance", "materiality"),
    RuleViolation("MT002", "Medium Materiality Account Variance", "materiality"),
    RuleViolation("MT003", "Low Materiality Account Variance", "materiality"),
    RuleViolation("CR001", "Investment Properties vs Depreciation Correlation", "correlation_violation"),
    RuleViolation("CR002", "Loan Balance vs Interest Expenses Correlation", "correlation_violation"),
    RuleViolation("CR003", "Cash Deposits vs Bank Interest Income Correlation", "correlation_violation"),
    RuleViolation("CR004", "Trade Receivables Quarterly Billing Cycle", "correlation_violation"),
    RuleViolation("CR005", "Unbilled Revenue Quarterly Recognition Pattern", "correlation_violation"),
    RuleViolation("CR006", "Unearned Revenue vs Advance Collection Correlation", "correlation_violation"),
    RuleViolation("CR007", "Capital Expenditure vs VAT Deductible Correlation", "correlation_violation"),
    RuleViolation("CR008", "Occupancy Rate vs Revenue Correlation", "correlation_violation"),
    RuleViolation("CR009", "Maintenance Expenses vs OPEX Correlation", "correlation_violation"),
    RuleViolation("CR010", "Asset Disposal vs Depreciation Negative Correlation", "correlation_violation"),
    RuleViolation("CR011", "New Lease Contracts vs Revenue Correlation", "correlation_violation"),
    RuleViolation("CR012", "Lease Termination vs Revenue Negative Correlation", "correlation_violation"),
    RuleViolation("CR013", "FX Rate vs FX Gain/Loss Correlation", "correlation_violation") >>

\* ALL_RULES.get(rule_id): Optional RuleViolation
get_rule_violation(rule_id) ==
    LET hits == SelectSeq(ALL_RULES, LAMBDA r : r.rule_id = rule_id)
    IN  IF hits = <<>> THEN None ELSE Some(hits[1])

get_variance_rule_for_category(category) ==
    IF category \in {"opex", "staff_costs", "other_expenses"} THEN "VT002"
    ELSE IF category = "borrowings" THEN "VT003"
    ELSE IF category = "depreciation" THEN "VT005"
    ELSE "VT001"

Digit == <<"0", "1", "2", "3", "4", "5", "6", "7", "8", "9">>

\* str(n) for n >= 0
RECURSIVE DecimalString(_)
DecimalString(n) ==
    IF n < 10 THEN Digit[n + 1] ELSE DecimalString(n \div 10) \o Digit[(n % 10) + 1]

\* faulty variant: zero-padded to two digits
get_correlation_rule_id_TwoDigits(correlation_rule_id) ==
    LET digits == DecimalString(correlation_rule_id)
    IN  "CR" \o (IF Len(digits) < 2 THEN "0" ELSE "") \o digits

\* f"CR{n:03d}": zero-padded to at least three digits
get_correlation_rule_id(correlation_rule_id) ==
    LET digits == DecimalString(correlation_rule_id)
    IN  "CR" \o (IF Len(digits) < 3
                 THEN (IF Len(digits) < 2 THEN "00" ELSE "0") \o digits
                 ELSE digits)

\* faulty variant: the tier bounds are exclusive
get_materiality_rule_for_threshold_Exclusive(threshold) ==
    IF threshold < 3 THEN "MT001"
    ELSE IF threshold < 5 THEN "MT002"
    ELSE "MT003"

get_materiality_rule_for_threshold(threshold) ==
    IF threshold <= 3 THEN "MT001"
    ELSE IF threshold <= 5 THEN "MT002"
    ELSE "MT003"

-----------------------------------------------------------------------------
(* AnomalyDetector.  Texts built with f-strings (description,              *)
(* logic_trigger) are modelled by the wording the branch selects; the      *)
(* formatted numbers are left out.                                         *)


\* faulty variant: a tier is reached when either threshold is met
ClassifySeverity_EitherThreshold(severity_thresholds, abs_percent, abs_amount) ==
    IF \/ RGe(abs_percent, severity_thresholds["critical"].variance_threshold)
       \/ abs_amount >= severity_thresholds["critical"].absolute_threshold
    THEN "critical"
    ELSE IF \/ RGe(abs_percent, severity_thresholds["high"].variance_threshold)
            \/ abs_amount >= severity_thresholds["high"].absolute_threshold
    THEN "high"
    ELSE IF \/ RGe(abs_percent, severity_thresholds["medium"].variance_threshold)
            \/ abs_amount >= severity_thresholds["medium"].absolute_threshold
    THEN "medium"
    ELSE "low"

\* faulty variant: a tier is reached on the percentage alone
ClassifySeverity_PercentOnly(severity_thresholds, abs_percent, abs_amount) ==
    IF RGe(abs_percent, severity_thresholds["critical"].variance_threshold)
    THEN "critical"
    ELSE IF RGe(abs_percent, severity_thresholds["high"].variance_threshold)
    THEN "high"
    ELSE IF RGe(abs_percent, severity_thresholds["medium"].variance_threshold)
    THEN "medium"
    ELSE "low"

\* the if/elif chain on severity_thresholds
ClassifySeverity(severity_thresholds, abs_percent, abs_amount) ==
    IF /\ RGe(abs_percent, severity_thresholds["critical"].variance_threshold)
       /\ abs_amount >= severity_thresholds["critical"].absolute_threshold
    THEN "critical"
    ELSE IF /\ RGe(abs_percent, severity_thresholds["high"].variance_threshold)
            /\ abs_amount >= severity_thresholds["high"].absolute_threshold
    THEN "high"
    ELSE IF /\ RGe(abs_percent, severity_thresholds["medium"].variance_threshold)
            /\ abs_amount >= severity_thresholds["medium"].absolute_threshold
    THEN "medium"
    ELSE "low"

\* the if/elif chain raises KeyError: it reaches a tier the table lacks
\* (a tier is looked up only when no earlier tier was met)
ClassifySeverityRaises(severity_thresholds, abs_percent, abs_amount) ==
    LET met(tier) ==
            /\ RGe(abs_percent, severity_thresholds[tier].variance_threshold)
            /\ abs_amount >= severity_thresholds[tier].absolute_threshold
    IN  IF "critical" \notin DOMAIN severity_thresholds THEN TRUE
        ELSE IF met("critical") THEN FALSE
        ELSE IF "high" \notin DOMAIN severity_thresholds THEN TRUE
        ELSE IF met("high") THEN FALSE
        ELSE "medium" \notin DOMAIN severity_thresholds

\* settings.account_mappings.get("materiality_thresholds", {}): the levels
\* in dict order, each a dict that may hold accounts and threshold
MaterialityConfig(s) == Get(s.account_mappings, "materiality_thresholds", <<>>)

GetMaterialityThreshold(s, account_code) ==
    LET hits == SelectSeq(MaterialityConfig(s),
                          LAMBDA config : InList(account_code, Get(config, "accounts", <<>>)))
    IN  IF hits = <<>> THEN 5 ELSE Get(hits[1], "threshold", 5)

GetSuggestedReason(s, result) ==
    IF has_sign_change(result.current_value, result.previous_value)
    THEN "Account sign change - verify data accuracy and business events"
    ELSE IF InList(result.account_code, GetCyclicalAccountCodes(s))
    THEN "Deviation from expected quarterly pattern - check billing cycles"
    ELSE "Operational changes or accounting adjustments"

GetLogicTrigger(s, result, severity, abs_percent) ==
    IF has_sign_change(result.current_value, result.previous_value)
    THEN <<"Sign change detected">>
    ELSE IF RGe(abs_percent, GetVarianceThreshold(s, Some(result.category)))
    THEN << IF result.category \in {"opex", "staff_costs", "other_expenses"}
            THEN "G&A account exceeds 10% threshold"
            ELSE IF result.category = "borrowings"
            THEN "Borrowings exceeds 2% threshold"
            ELSE IF result.category = "depreciation"
            THEN "Recurring account exceeds 5% threshold"
            ELSE "Exceeds threshold" >>
         \o (IF severity # "low" THEN <<"Meets " \o severity \o " criteria">> ELSE <<>>)
    ELSE <<"Variance threshold exceeded">>

RuleName(rule_violation, fallback) ==
    IF rule_violation # None THEN rule_violation[1].rule_name ELSE fallback

\* the loop body of _detect_variance_anomalies: the anomalies it appends
VarianceAnomaly(s, result) ==
    IF ~result.is_significant
    THEN <<>>
    ELSE
    LET severity_thresholds == GetSeverityThresholds(s)
        abs_amount == Abs(result.variance_amount)
        abs_percent == RAbs(result.variance_percent)
        severity == ClassifySeverity(severity_thresholds, abs_percent, abs_amount)
        category_rule_id == get_variance_rule_for_category(result.category)
        account_has_specific_materiality ==
            \E i \in 1..Len(MaterialityConfig(s)) :
                InList(result.account_code, Get(MaterialityConfig(s)[i], "accounts", <<>>))
        materiality_rule_id ==
            get_materiality_rule_for_threshold(GetMaterialityThreshold(s, result.account_code))
        use_materiality ==
            account_has_specific_materiality /\ get_rule_violation(materiality_rule_id) # None
        rule_id == IF use_materiality THEN materiality_rule_id ELSE category_rule_id
        rule_violation == get_rule_violation(rule_id)
    IN  << [id |-> "VAR_" \o result.account_code \o "_" \o result.period_to,
            type |-> "variance",
            severity |-> severity,
            account_code |-> result.account_code,
            account_name |-> result.account_name,
            category |-> result.category,
            description |-> IF result.variance_amount > 0 THEN "Account increased"
                                                            ELSE "Account decreased",
            current_value |-> result.current_value,
            previous_value |-> Some(result.previous_value),
            variance_percent |-> result.variance_percent,
            rule_violated |-> RuleName(rule_violation, "Variance Threshold"),
            recommended_action |-> GetSuggestedReason(s, result),
            period |-> result.period_to,
            logic_trigger |-> GetLogicTrigger(s, result, severity, abs_percent),
            rule_violation_id |-> rule_id,
            rule_violation_name |-> RuleName(rule_violation, "Variance Threshold")] >>

DetectVarianceAnomalies(s, results) ==
    LET loop[i \in 0..Len(results)] ==
            IF i = 0 THEN <<>> ELSE loop[i - 1] \o VarianceAnomaly(s, results[i])
    IN  loop[Len(results)]

\* faulty variant: the anomaly is filed under the correlated account
CorrelationAnomaly_CorrelatedAccount(result) ==
    IF ~result.is_violation
    THEN <<>>
    ELSE
    LET severity == IF result.severity = "high" THEN "high"
                    ELSE IF result.severity = "medium" THEN "medium"
                    ELSE "low"
        account_info == GetAccountInfo(result.primary_account)
        correlation_rule_id == get_correlation_rule_id(result.rule_id)
        rule_violation == get_rule_violation(correlation_rule_id)
    IN  << [id |-> "CORR_" \o DecimalString(result.rule_id) \o "_" \o result.primary_account,
            type |-> "correlation",
            severity |-> severity,
            account_code |-> result.correlated_account,
            account_name |-> IF account_info # None THEN account_info[1].name
                                                    ELSE result.primary_account,
            category |-> IF account_info # None THEN account_info[1].category ELSE "unknown",
            description |-> "Rule violation: " \o result.rule_name,
            current_value |-> 0,
            previous_value |-> None,
            variance_percent |-> result.primary_variance,
            rule_violated |-> result.rule_name,
            recommended_action |-> "Operational changes or accounting adjustments",
            period |-> "Current",
            logic_trigger |-> <<"Correlation rule violation: " \o result.rule_name>>,
            rule_violation_id |-> correlation_rule_id,
            rule_violation_name |-> RuleName(rule_violation, result.rule_name)] >>

\* the loop body of _detect_correlation_anomalies: the anomalies it appends
CorrelationAnomaly(result) ==
    IF ~result.is_violation
    THEN <<>>
    ELSE
    LET severity == IF result.severity = "high" THEN "high"
                    ELSE IF result.severity = "medium" THEN "medium"
                    ELSE "low"
        account_info == GetAccountInfo(result.primary_account)
        correlation_rule_id == get_correlation_rule_id(result.rule_id)
        rule_violation == get_rule_violation(correlation_rule_id)
    IN  << [id |-> "CORR_" \o DecimalString(result.rule_id) \o "_" \o result.primary_account,
            type |-> "correlation",
            severity |-> severity,
            account_code |-> result.primary_account,
            account_name |-> IF account_info # None THEN account_info[1].name
                                                    ELSE result.primary_account,
            category |-> IF account_info # None THEN account_info[1].category ELSE "unknown",
            description |-> "Rule violation: " \o result.rule_name,
            current_value |-> 0,
            previous_value |-> None,
            variance_percent |-> result.primary_variance,
            rule_violated |-> result.rule_name,
            recommended_action |-> "Operational changes or accounting adjustments",
            period |-> "Current",
            logic_trigger |-> <<"Correlation rule violation: " \o result.rule_name>>,
            rule_violation_id |-> correlation_rule_id,
            rule_violation_name |-> RuleName(rule_violation, result.rule_name)] >>

DetectCorrelationAnomalies(results) ==
    LET loop[i \in 0..Len(results)] ==
            IF i = 0 THEN <<>> ELSE loop[i - 1] \o CorrelationAnomaly(results[i])
    IN  loop[Len(results)]

SignChangeAnomaly(result) ==
    IF ~has_sign_change(result.current_value, result.previous_value)
    THEN <<>>
    ELSE
    LET rule_id == IF result.previous_value # 0 /\ result.current_value = 0 THEN "SC002"
                   ELSE IF result.previous_value = 0 /\ result.current_value # 0 THEN "SC002"
                   ELSE "SC001"
        rule_violation == get_rule_violation(rule_id)
    IN  << [id |-> "SIGN_" \o result.account_code \o "_" \o result.period_to,
            type |-> "sign_change",
            severity |-> "high",
            account_code |-> result.account_code,
            account_name |-> result.account_name,
            category |-> result.category,
            description |->
                IF result.previous_value > 0 /\ result.current_value < 0
                THEN "Account changed from positive to negative"
                ELSE IF result.previous_value < 0 /\ result.current_value > 0
                THEN "Account changed from negative to positive"
                ELSE IF result.previous_value # 0 /\ result.current_value = 0
                THEN "Account changed to zero"
                ELSE "Account changed from zero",
            current_value |-> result.current_value,
            previous_value |-> Some(result.previous_value),
            variance_percent |-> result.variance_percent,
            rule_violated |-> RuleName(rule_violation, "Sign Change Detection"),
            recommended_action |-> "Account sign change - verify data accuracy and business events",
            period |-> result.period_to,
            logic_trigger |-> <<"Sign change detected">>,
            rule_violation_id |-> rule_id,
            rule_violation_name |-> RuleName(rule_violation, "Sign Change Detection")] >>

DetectSignChanges(results) ==
    LET loop[i \in 0..Len(results)] ==
            IF i = 0 THEN <<>> ELSE loop[i - 1] \o SignChangeAnomaly(results[i])
    IN  loop[Len(results)]

RecurringAnomaly(s, result) ==
    LET recurring_threshold == GetVarianceThreshold(s, Some("recurring"))
        abs_amount == Abs(result.variance_amount)
        abs_percent == RAbs(result.variance_percent)
        rule_violation == get_rule_violation("RA001")
    IN  IF ~InList(result.account_code, GetRecurringAccountCodes(s))
        THEN <<>>
        ELSE IF ~RGe(abs_percent, recurring_threshold)
        THEN <<>>
        ELSE << [id |-> "RECUR_" \o result.account_code \o "_" \o result.period_to,
                 type |-> "recurring_spike",
                 severity |-> ClassifySeverity(GetSeverityThresholds(s), abs_percent, abs_amount),
                 account_code |-> result.account_code,
                 account_name |-> result.account_name,
                 category |-> result.category,
                 description |-> "Recurring account showed variance (expected to be stable)",
                 current_value |-> result.current_value,
                 previous_value |-> Some(result.previous_value),
                 variance_percent |-> result.variance_percent,
                 rule_violated |-> RuleName(rule_violation, "Recurring Account Stability"),
                 recommended_action |-> "Operational changes or accounting adjustments",
                 period |-> result.period_to,
                 logic_trigger |-> <<"Recurring account exceeds stability threshold">>,
                 rule_violation_id |-> "RA001",
                 rule_violation_name |-> RuleName(rule_violation, "Recurring Account Stability")] >>

DetectRecurringAccountAnomalies(s, results) ==
    LET loop[i \in 0..Len(results)] ==
            IF i = 0 THEN <<>> ELSE loop[i - 1] \o RecurringAnomaly(s, results[i])
    IN  loop[Len(results)]

\* faulty variant: a variance equal to the threshold is a pattern break
QuarterlyAnomaly_AtThreshold(s, result) ==
    LET quarterly_config == Get(s.thresholds, "quarterly_patterns", EmptyDict)
        pattern_threshold ==
            Get(Get(quarterly_config, result.category, EmptyDict), "end_quarter_peak", 30)
        abs_amount == Abs(result.variance_amount)
        abs_percent == RAbs(result.variance_percent)
        rule_id == IF result.category \in {"trade_receivables"} THEN "QP001" ELSE "QP002"
        rule_violation == get_rule_violation(rule_id)
    IN  IF ~InList(result.account_code, GetCyclicalAccountCodes(s))
        THEN <<>>
        ELSE IF ~RGe(abs_percent, pattern_threshold)
        THEN <<>>
        ELSE << [id |-> "QUART_" \o result.account_code \o "_" \o result.period_to,
                 type |-> "quarterly_pattern",
                 severity |-> ClassifySeverity(GetSeverityThresholds(s), abs_percent, abs_amount),
                 account_code |-> result.account_code,
                 account_name |-> result.account_name,
                 category |-> result.category,
                 description |-> "Quarterly account showed unusual variance",
                 current_value |-> result.current_value,
                 previous_value |-> Some(result.previous_value),
                 variance_percent |-> result.variance_percent,
                 rule_violated |-> RuleName(rule_violation, "Quarterly Pattern Check"),
                 recommended_action |-> "Deviation from expected quarterly pattern - check billing cycles",
                 period |-> result.period_to,
                 logic_trigger |-> <<"Cyclical account exceeds quarterly pattern threshold">>,
                 rule_violation_id |-> rule_id,
                 rule_violation_name |-> RuleName(rule_violation, "Quarterly Pattern Check")] >>

\* the loop body of _detect_quarterly_pattern_breaks: the anomalies it appends
QuarterlyAnomaly(s, result) ==
    LET quarterly_config == Get(s.thresholds, "quarterly_patterns", EmptyDict)
        pattern_threshold ==
            Get(Get(quarterly_config, result.category, EmptyDict), "end_quarter_peak", 30)
        abs_amount == Abs(result.variance_amount)
        abs_percent == RAbs(result.variance_percent)
        rule_id == IF result.category \in {"trade_receivables"} THEN "QP001" ELSE "QP002"
        rule_violation == get_rule_violation(rule_id)
    IN  IF ~InList(result.account_code, GetCyclicalAccountCodes(s))
        THEN <<>>
        ELSE IF ~RGt(abs_percent, pattern_threshold)
        THEN <<>>
        ELSE << [id |-> "QUART_" \o result.account_code \o "_" \o result.period_to,
                 type |-> "quarterly_pattern",
                 severity |-> ClassifySeverity(GetSeverityThresholds(s), abs_percent, abs_amount),
                 account_code |-> result.account_code,
                 account_name |-> result.account_name,
                 category |-> result.category,
                 description |-> "Quarterly account showed unusual variance",
                 current_value |-> result.current_value,
                 previous_value |-> Some(result.previous_value),
                 variance_percent |-> result.variance_percent,
                 rule_violated |-> RuleName(rule_violation, "Quarterly Pattern Check"),
                 recommended_action |-> "Deviation from expected quarterly pattern - check billing cycles",
                 period |-> result.period_to,
                 logic_trigger |-> <<"Cyclical account exceeds quarterly pattern threshold">>,
                 rule_violation_id |-> rule_id,
                 rule_violation_name |-> RuleName(rule_violation, "Quarterly Pattern Check")] >>

DetectQuarterlyPatternBreaks(s, results) ==
    LET loop[i \in 0..Len(results)] ==
            IF i = 0 THEN <<>> ELSE loop[i - 1] \o QuarterlyAnomaly(s, results[i])
    IN  loop[Len(results)]

severity_order == [critical |-> 4, high |-> 3, medium |-> 2, low |-> 1]

\* the sort key (severity_order[x.severity], abs(x.variance_percent) or 0)
PriorityKey(x) ==
    <<severity_order[x.severity],
      IF x.variance_percent.n # 0 THEN RAbs(x.variance_percent) ELSE RInt(0)>>

KeyLess(k1, k2) ==
    \/ k1[1] < k2[1]
    \/ k1[1] = k2[1] /\ RLess(k1[2], k2[2])

\* faulty variant: an element goes ahead of the elements with its key
PrioritizeAnomalies_Unstable(list) ==
    LET Insert(sorted, a) ==
            LET before == {i \in 1..Len(sorted) : ~KeyLess(PriorityKey(a), PriorityKey(sorted[i]))}
                pos == IF before = {} THEN Len(sorted) + 1
                       ELSE CHOOSE i \in before : \A j \in before : i <= j
            IN  SubSeq(sorted, 1, pos - 1) \o <<a>> \o SubSeq(sorted, pos, Len(sorted))
        loop[i \in 0..Len(list)] ==
            IF i = 0 THEN <<>> ELSE Insert(loop[i - 1], list[i])
    IN  loop[Len(list)]

\* sorted(..., reverse=True): descending, elements with equal keys keep
\* their order
PrioritizeAnomalies(list) ==
    LET Insert(sorted, a) ==
            LET before == {i \in 1..Len(sorted) : KeyLess(PriorityKey(sorted[i]), PriorityKey(a))}
                pos == IF before = {} THEN Len(sorted) + 1
                       ELSE CHOOSE i \in before : \A j \in before : i <= j
            IN  SubSeq(sorted, 1, pos - 1) \o <<a>> \o SubSeq(sorted, pos, Len(sorted))
        loop[i \in 0..Len(list)] ==
            IF i = 0 THEN <<>> ELSE Insert(loop[i - 1], list[i])
    IN  loop[Len(list)]

Detect(s, vrs, crs) ==
    PrioritizeAnomalies(
        DetectVarianceAnomalies(s, vrs)
            \o DetectCorrelationAnomalies(crs)
            \o DetectSignChanges(vrs)
            \o DetectRecurringAccountAnomalies(s, vrs)
            \o DetectQuarterlyPatternBreaks(s, vrs))

\* faulty variant: high anomalies are returned with the critical ones
get_critical_anomalies_HighToo(list) ==
    SelectSeq(list, LAMBDA a : a.severity \in {"critical", "high"})

\* [a for a in anomalies if a.severity == AnomalySeverity.CRITICAL]
get_critical_anomalies(list) ==
    SelectSeq(list, LAMBDA a : a.severity = "critical")

\* [a for a in anomalies if a.type == anomaly_type]
get_anomalies_by_type(list, anomaly_type) ==
    SelectSeq(list, LAMBDA a : a.type = anomaly_type)

\* detect raises: one of the three passes that classify a severity reaches
\* a tier the table lacks
DetectRaises(s, vrs) ==
    \E i \in 1..Len(vrs) :
        LET result == vrs[i]
            abs_percent == RAbs(result.variance_percent)
            quarterly_config == Get(s.thresholds, "quarterly_patterns", EmptyDict)
            pattern_threshold ==
                Get(Get(quarterly_config, result.category, EmptyDict), "end_quarter_peak", 30)
        IN  /\ \/ result.is_significant
               \/ /\ InList(result.account_code, GetRecurringAccountCodes(s))
                  /\ RGe(abs_percent, GetVarianceThreshold(s, Some("recurring")))
               \/ /\ InList(result.account_code, GetCyclicalAccountCodes(s))
                  /\ ~RGe(pattern_threshold, abs_percent)
            /\ ClassifySeverityRaises(GetSeverityThresholds(s), abs_percent,
                                      Abs(result.variance_amount))

-----------------------------------------------------------------------------
(* Bounds and input domains *)

\* most rules a caller switches off before analyze
MaxDisabled == 1
\* largest step between the previous and the current value of an analysed row
MaxDelta == 13
\* longest VarianceResult list handed to detect directly
MaxResults == 2
\* largest whole-percent variance handed to _check_rule_violation directly
MaxVariance == 22

Periods == <<"Apr_2025", "May_2025">>

EmptyFrame == [columns |-> {}, periods |-> <<>>, rows |-> <<>>]

Row(account_code, pair) ==
    [account_code |-> account_code, account_name |-> account_code, values |-> pair]

Frame(rows) ==
    IF rows = <<>>
    THEN EmptyFrame
    ELSE [columns |-> {"account_code", "account_name", "statement_type"},
          periods |-> Periods, rows |-> rows]

NoFinancialData == [balance_sheet |-> EmptyFrame, income_statement |-> EmptyFrame]

\* an account of a snapshot: absent (<<>>) or its <<previous, current>> values
OptRows(account_code, pairs) ==
    {<<>>} \cup {<<Row(account_code, pair)>> : pair \in pairs}

\* snapshots of the full run: investment property and trade receivable on
\* the balance sheet, depreciation and revenue on the income statement
Snapshots ==
    { [balance_sheet |-> Frame(ip \o tr), income_statement |-> Frame(dep \o rev)] :
        ip \in OptRows("217000001", {<<1000000, 1200000>>, <<1000000, 1040000>>, <<1000000, 920000>>,
                                     <<1000000000, 1200000000>>}),
        tr \in OptRows("131100001", {<<400000, 520000>>, <<400000, 416000>>}),
        dep \in OptRows("632100001", {<<50000, 52000>>, <<50000, 46000>>, <<50000, 60000>>}),
        rev \in OptRows("511100001", {<<200000, 208000>>, <<0, 200000>>}) }

\* one-row snapshots of the variance analysis: six categories, previous
\* values of either sign and zero, current values around them
RowAccounts ==
    {"622000001", "341160000", "632100001", "511100001", "217000001", "999999999"}

RowPairs ==
    { <<previous, current>> :
        previous \in {-100, -40, 0, 40, 100},
        current \in (-100 - MaxDelta)..(100 + MaxDelta) } \cap
    { pair \in (-100..100) \X ((-100 - MaxDelta)..(100 + MaxDelta)) :
        \/ Abs(pair[2] - pair[1]) <= MaxDelta
        \/ pair[2] = 0
        \/ pair[2] = -pair[1] }

RowSnapshots ==
    { IF GetAccountInfo(code) # None /\ GetAccountInfo(code)[1].statement_type = "IS"
      THEN [balance_sheet |-> EmptyFrame, income_statement |-> Frame(<<Row(code, pair)>>)]
      ELSE [balance_sheet |-> Frame(<<Row(code, pair)>>), income_statement |-> EmptyFrame] :
        code \in RowAccounts, pair \in RowPairs }

\* threshold configurations: the default, a category tolerance (one of them
\* above every variance a zero crossing yields), another global threshold,
\* no recurring-account thresholds
WithKey(dict, key, value) ==
    [k \in DOMAIN dict \cup {key} |-> IF k = key THEN value ELSE dict[k]]

ThresholdConfigs ==
    { WithKey(WithKey(tol, "variance_threshold", global), "recurring_accounts", rec) :
        tol \in {DefaultThresholds}
                 \cup { WithKey(DefaultThresholds, "account_tolerances", WithKey(EmptyDict, c, t)) :
                          c \in {"opex", "revenue", "unknown"}, t \in {3, 12, 150} },
        global \in {5, 8},
        rec \in {DefaultThresholds.recurring_accounts, EmptyDict} }

\* severity tables: the three default tiers under every assignment to the
\* tier names
SeverityTables ==
    { [critical |-> DefaultSeverityLevels[a], high |-> DefaultSeverityLevels[b],
       medium |-> DefaultSeverityLevels[c]] :
        a \in {"critical", "high", "medium"}, b \in {"critical", "high", "medium"},
        c \in {"critical", "high", "medium"} }

\* <<variance_percent, variance_amount>> of the results handed to detect
DetectCases ==
    { <<25, 20000>>, <<15, 15000>>, <<7, 7000>>, <<25, 50000>>,
      <<20, 1000000>>, <<25, 500000>>, <<10, 500000>>, <<-15, -1000000>>,
      <<5, 100000>>, <<7, 500000>>, <<4, 1000000>>, <<-25, -100000>> }

TestResult(percent, amount, significant, previous, current) ==
    [account_code |-> "TEST", account_name |-> "Test", category |-> "test",
     statement_type |-> "BS", current_value |-> current, previous_value |-> previous,
     variance_amount |-> amount, variance_percent |-> RInt(percent),
     is_significant |-> significant, period_from |-> "Apr_2025", period_to |-> "May_2025"]

DetectResults ==
    { TestResult(case[1], case[2], significant, 100000, 100000 + case[2]) :
        case \in DetectCases, significant \in BOOLEAN }
    \cup { TestResult(-250, -25000, TRUE, 10000, -15000) }

\* the lists handed to detect: the i-th result is account TEST00i
DetectLists ==
    UNION { [1..n -> DetectResults] : n \in 1..MaxResults }

Numbered(list) ==
    [i \in 1..Len(list) |->
        [list[i] EXCEPT !.account_code = "TEST00" \o DecimalString(i)]]

\* one rule of each relationship type
CallRules == {1, 4, 10, 13}

-----------------------------------------------------------------------------
(* The run of main._process_single_file_mode *)

Init ==
    /\ pc = "start"
    /\ settings = DefaultSettings
    /\ financial_data = NoFinancialData
    /\ rules = InitializeRules
    /\ variance_results = <<>>
    /\ correlation_results = <<>>
    /\ anomalies = <<>>
    /\ call = None
    /\ check_result = None
    /\ first_run = None
    /\ batch = None

\* loader_factory.create_loader(input_file, force_loader)
Load ==
    /\ pc = "start"
    /\ \E fd \in Snapshots : financial_data' = fd
    /\ pc' = "loaded"
    /\ UNCHANGED <<settings, rules, variance_results, correlation_results,
                   anomalies, call, check_result, first_run, batch>>

\* variance_analyzer.analyze(financial_data)
Analyze ==
    /\ pc = "loaded"
    /\ variance_results' = VarianceAnalyze(settings, financial_data)
    /\ pc' = "variance"
    /\ UNCHANGED <<settings, financial_data, rules, correlation_results,
                   anomalies, call, check_result, first_run, batch>>

Disabled(rs) == {i \in 1..Len(rs) : ~rs[i].enabled}

\* engine.rules[i].enabled = False, by the owner of the engine
DisableRule ==
    /\ pc = "variance"
    /\ Cardinality(Disabled(rules)) < MaxDisabled
    /\ \E i \in 1..Len(rules) :
        /\ rules[i].enabled
        /\ rules' = [rules EXCEPT ![i].enabled = FALSE]
    /\ UNCHANGED <<pc, settings, financial_data, variance_results,
                   correlation_results, anomalies, call, check_result, first_run, batch>>

\* correlation_engine.analyze(financial_data)
Correlate ==
    /\ pc = "variance"
    /\ IF CorrelationAnalyzeRaises(rules, financial_data)
       THEN /\ pc' = "error"
            /\ UNCHANGED correlation_results
       ELSE /\ pc' = "correlation"
            /\ correlation_results' = CorrelationAnalyze(rules, financial_data)
    /\ UNCHANGED <<settings, financial_data, rules, variance_results,
                   anomalies, call, check_result, first_run, batch>>

\* faulty variant: the detector keeps the anomalies of its earlier calls
DetectAnomalies_Accumulating ==
    /\ pc = "correlation"
    /\ anomalies' = anomalies \o Detect(settings, variance_results, correlation_results)
    /\ pc' = "detected"
    /\ UNCHANGED <<settings, financial_data, rules, variance_results,
                   correlation_results, call, check_result, first_run, batch>>

\* anomaly_detector.detect(variance_results, correlation_results, financial_data)
DetectAnomalies ==
    /\ pc = "correlation"
    /\ anomalies' = Detect(settings, variance_results, correlation_results)
    /\ pc' = "detected"
    /\ UNCHANGED <<settings, financial_data, rules, variance_results,
                   correlation_results, call, check_result, first_run, batch>>

\* the three stages are run once more on the same objects and the same
\* snapshot; the caller keeps what the first run returned
RunAgain ==
    /\ pc = "detected"
    /\ first_run = None
    /\ first_run' = Some([anomalies |-> anomalies, rules |-> rules])
    /\ pc' = "loaded"
    /\ UNCHANGED <<settings, financial_data, rules, variance_results,
                   correlation_results, anomalies, call, check_result, batch>>

Next == Load \/ Analyze \/ DisableRule \/ Correlate \/ DetectAnomalies \/ RunAgain

Spec == Init /\ [][Next]_vars

-----------------------------------------------------------------------------
(* VarianceAnalyzer.analyze on one row, under every threshold configuration *)

InitVar ==
    /\ pc = "start"
    /\ \E t \in ThresholdConfigs :
        settings = [thresholds |-> t, account_mappings |-> DefaultAccountMappings]
    /\ financial_data = NoFinancialData
    /\ rules = InitializeRules
    /\ variance_results = <<>>
    /\ correlation_results = <<>>
    /\ anomalies = <<>>
    /\ call = None
    /\ check_result = None
    /\ first_run = None
    /\ batch = None

LoadRow ==
    /\ pc = "start"
    /\ \E fd \in RowSnapshots : financial_data' = fd
    /\ pc' = "loaded"
    /\ UNCHANGED <<settings, rules, variance_results, correlation_results,
                   anomalies, call, check_result, first_run, batch>>

NextVar == LoadRow \/ Analyze

SpecVar == InitVar /\ [][NextVar]_vars

-----------------------------------------------------------------------------
(* AnomalyDetector.detect called on a list of VarianceResult, under every  *)
(* severity table                                                          *)

InitDetect ==
    /\ pc = "start"
    /\ \E table \in SeverityTables :
        settings = [thresholds |-> WithKey(DefaultThresholds, "severity_levels", table),
                    account_mappings |-> DefaultAccountMappings]
    /\ financial_data = NoFinancialData
    /\ rules = InitializeRules
    /\ variance_results = <<>>
    /\ correlation_results = <<>>
    /\ anomalies = <<>>
    /\ call = None
    /\ check_result = None
    /\ first_run = None
    /\ batch = None

\* detector.detect(variance_results, [], financial_data)
DetectCall ==
    /\ pc = "start"
    /\ \E list \in DetectLists :
        /\ variance_results' = Numbered(list)
        /\ anomalies' = Detect(settings, Numbered(list), <<>>)
    /\ pc' = "detected"
    /\ UNCHANGED <<settings, financial_data, rules, correlation_results,
                   call, check_result, first_run, batch>>

NextDetect == DetectCall

SpecDetect == InitDetect /\ [][NextDetect]_vars

-----------------------------------------------------------------------------
(* CorrelationEngine._check_rule_violation called on a pair of variances,  *)
(* under every configured correlation threshold                            *)

CorrelationThresholdConfigs ==
    {DefaultThresholds}
    \cup { WithKey(DefaultThresholds, "correlation_thresholds",
                   WithKey(EmptyDict, "global_correlation_threshold", t)) : t \in {5, 8} }

InitCheck ==
    /\ pc = "start"
    /\ \E t \in CorrelationThresholdConfigs :
        settings = [thresholds |-> t, account_mappings |-> DefaultAccountMappings]
    /\ financial_data = NoFinancialData
    /\ rules = InitializeRules
    /\ variance_results = <<>>
    /\ correlation_results = <<>>
    /\ anomalies = <<>>
    /\ call = None
    /\ check_result = None
    /\ first_run = None
    /\ batch = None

\* engine._check_rule_violation(rule, primary_variance, correlated_variance)
CheckCall ==
    /\ pc = "start"
    /\ \E i \in CallRules, p \in -MaxVariance..MaxVariance, c \in -MaxVariance..MaxVariance :
        /\ call' = Some([rule |-> rules[i],
                         primary_variance |-> RInt(p),
                         correlated_variance |-> RInt(c)])
        /\ check_result' = CheckRuleViolation(rules[i], RInt(p), RInt(c))
    /\ pc' = "checked"
    /\ UNCHANGED <<settings, financial_data, rules, variance_results,
                   correlation_results, anomalies, first_run, batch>>

NextCheck == CheckCall

SpecCheck == InitCheck /\ [][NextCheck]_vars

-----------------------------------------------------------------------------
(* CorrelationEngine.analyze on snapshots with several accounts of one      *)
(* category, with rules switched off or given a list of primary categories *)

\* two investment properties and VAT deductible on the balance sheet, two
\* depreciation accounts on the income statement; trade receivable and
\* revenue for the quarterly rule
PairSnapshots ==
    { [balance_sheet |-> Frame(ip1 \o ip2 \o vat \o tr),
       income_statement |-> Frame(dep1 \o dep2 \o rev)] :
        ip1 \in OptRows("217000001", {<<1000000, 1200000>>, <<1000000, 1040000>>}),
        ip2 \in OptRows("217000006", {<<500000, 600000>>}),
        vat \in OptRows("133100001", {<<30000, 30000>>}),
        tr \in OptRows("131100001", {<<400000, 520000>>}),
        dep1 \in OptRows("632100001", {<<50000, 52000>>, <<50000, 46000>>}),
        dep2 \in OptRows("632100002", {<<20000, 20800>>}),
        rev \in OptRows("511100001", {<<200000, 208000>>}) }

\* the rules whose primary category the owner of the engine replaces
ListRules == {1, 7}

LoadPairs ==
    /\ pc = "start"
    /\ \E fd \in PairSnapshots : financial_data' = fd
    /\ pc' = "loaded"
    /\ UNCHANGED <<settings, rules, variance_results, correlation_results,
                   anomalies, call, check_result, first_run, batch>>

\* engine.rules[i].primary_account_category = [...], by the owner of the
\* engine
SetPrimaryCategories ==
    /\ pc = "variance"
    /\ \A i \in 1..Len(rules) : ~MapperAccountsByCategoryRaises(rules[i].primary_account_category)
    /\ \E i \in ListRules, list \in DOMAIN ListCategories :
        rules' = [rules EXCEPT ![i].primary_account_category = list]
    /\ UNCHANGED <<pc, settings, financial_data, variance_results,
                   correlation_results, anomalies, call, check_result, first_run, batch>>

NextCorr == LoadPairs \/ Analyze \/ DisableRule \/ SetPrimaryCategories \/ Correlate

SpecCorr == Init /\ [][NextCorr]_vars

-----------------------------------------------------------------------------
(* AnomalyDetector.detect on results of catalogued accounts, under         *)
(* configurations that name recurring, cyclical and material accounts      *)

\* longest VarianceResult list handed to detect under these configurations
MaxPassResults == 2

\* account_mappings.analysis_categories
AnalysisCategories ==
    [recurring_accounts |-> <<"632100001", "511100001">>,
     cyclical_accounts |-> <<"131100001", "511100001">>]

\* account_mappings.materiality_thresholds: levels in dict order; one
\* account is listed twice, one level has no threshold
MaterialityLevels ==
    { << [level |-> "high_materiality", accounts |-> <<"217000001", "341160000">>,
          threshold |-> t],
         [level |-> "medium_materiality", accounts |-> <<"632100001">>],
         [level |-> "low_materiality", accounts |-> <<"622000001", "217000001">>,
          threshold |-> 10] >> : t \in {3, 4} }

\* thresholds with a quarterly threshold for trade receivables and a
\* tolerance under the key the recurring pass asks for
PassThresholds ==
    WithKey(WithKey(DefaultThresholds, "quarterly_patterns",
                    WithKey(EmptyDict, "trade_receivables",
                            WithKey(EmptyDict, "end_quarter_peak", 12))),
            "account_tolerances", WithKey(EmptyDict, "recurring", 8))

\* the configurations: nothing configured; the account sets; the account
\* sets with these thresholds, without and with materiality levels
PassConfigs ==
    { DefaultSettings,
      [thresholds |-> DefaultThresholds,
       account_mappings |->
            WithKey(DefaultAccountMappings, "analysis_categories", AnalysisCategories)] }
    \cup { [thresholds |-> PassThresholds,
            account_mappings |-> WithKey(m, "analysis_categories", AnalysisCategories)] :
            m \in {DefaultAccountMappings}
                   \cup { WithKey(DefaultAccountMappings, "materiality_thresholds", levels) :
                            levels \in MaterialityLevels } }

\* <<account_code, category, previous_value, current_value>>
PassCases ==
    { <<"622000001", "opex", 100000, 112000>>,
      <<"642100001", "staff_costs", 100000, 112000>>,
      <<"811000001", "other_expenses", 100000, 88000>>,
      <<"341160000", "borrowings", 5000000, 5150000>>,
      <<"632100001", "depreciation", 50000, 57000>>,
      <<"632100001", "depreciation", 5000000, 5250000>>,
      <<"632100001", "depreciation", 50000, 52000>>,
      <<"632100001", "depreciation", 50000, 54000>>,
      <<"511100001", "revenue", 5000000, 6550000>>,
      <<"511100001", "revenue", 200000, 260000>>,
      <<"131100001", "trade_receivables", 400000, 452000>>,
      <<"131100001", "trade_receivables", 400000, 448000>>,
      <<"217000001", "investment_properties", 10000, -15000>>,
      <<"641100001", "fx_gain_loss", -5000, 3000>>,
      <<"213100001", "unearned_revenue", 0, 70000>>,
      <<"138900003", "unbilled_revenue", 80000, 0>>,
      <<"999999999", "unknown", 0, 0>> }

\* the cases also handed over with is_significant = False
InsignificantCases ==
    { <<"622000001", "opex", 100000, 112000>>,
      <<"632100001", "depreciation", 50000, 57000>>,
      <<"213100001", "unearned_revenue", 0, 70000>> }

PassResult(case, significant) ==
    [account_code |-> case[1], account_name |-> case[1], category |-> case[2],
     statement_type |-> "BS", current_value |-> case[4], previous_value |-> case[3],
     variance_amount |-> calculate_variance_amount(case[4], case[3]),
     variance_percent |-> calculate_variance_percentage(case[4], case[3]),
     is_significant |-> significant, period_from |-> "Apr_2025", period_to |-> "May_2025"]

PassResults ==
    {PassResult(case, TRUE) : case \in PassCases}
    \cup {PassResult(case, FALSE) : case \in InsignificantCases}

PassLists == UNION { [1..n -> PassResults] : n \in 1..MaxPassResults }

\* the CorrelationResult lists handed over with them: none, or two
\* violations of one primary account
PassCorrelationResults ==
    { <<>>,
      << [rule_id |-> 1, rule_name |-> "Investment Properties vs Depreciation",
          primary_account |-> "217000001", correlated_account |-> "632100001",
          primary_variance |-> RInt(20), correlated_variance |-> RInt(4),
          expected_relationship |-> "positive", is_violation |-> TRUE,
          violation_description |-> "primary changed, correlated did not",
          severity |-> "high"],
         [rule_id |-> 4, rule_name |-> "Trade Receivables vs Quarterly Billing",
          primary_account |-> "131100001", correlated_account |-> "511100001",
          primary_variance |-> RInt(31), correlated_variance |-> RInt(4),
          expected_relationship |-> "quarterly_cycle", is_violation |-> TRUE,
          violation_description |-> "unusual variance",
          severity |-> "medium"] >> }

InitPasses ==
    /\ pc = "start"
    /\ settings \in PassConfigs
    /\ financial_data = NoFinancialData
    /\ rules = InitializeRules
    /\ variance_results = <<>>
    /\ correlation_results = <<>>
    /\ anomalies = <<>>
    /\ call = None
    /\ check_result = None
    /\ first_run = None
    /\ batch = None

\* detector.detect(variance_results, correlation_results, financial_data)
PassesCall ==
    /\ pc = "start"
    /\ \E list \in PassLists, crs \in PassCorrelationResults :
        /\ variance_results' = list
        /\ correlation_results' = crs
        /\ anomalies' = Detect(settings, list, crs)
    /\ pc' = "detected"
    /\ UNCHANGED <<settings, financial_data, rules, call, check_result, first_run, batch>>

NextPasses == PassesCall

SpecPasses == InitPasses /\ [][NextPasses]_vars

-----------------------------------------------------------------------------
(* The registry functions called on their own *)

\* largest numeric rule id handed to get_correlation_rule_id
MaxRuleNumber == 1100

\* rule ids handed to get_rule_violation: those of the catalog and others
LookupIds ==
    {ALL_RULES[i].rule_id : i \in 1..Len(ALL_RULES)}
    \cup {"CR000", "CR014", "CR7", "cr001", "VT006", "MT004", "XX001", ""}

\* get_rule_violation(get_correlation_rule_id(numeric_id))
RuleIdCall ==
    /\ pc = "start"
    /\ \E n \in 0..MaxRuleNumber :
        /\ call' = Some([numeric_id |-> n, rule_id |-> get_correlation_rule_id(n)])
        /\ check_result' = get_rule_violation(get_correlation_rule_id(n))
    /\ pc' = "checked"
    /\ UNCHANGED <<settings, financial_data, rules, variance_results,
                   correlation_results, anomalies, first_run, batch>>

\* get_rule_violation(rule_id)
LookupCall ==
    /\ pc = "start"
    /\ \E id \in LookupIds :
        /\ call' = Some([rule_id |-> id])
        /\ check_result' = get_rule_violation(id)
    /\ pc' = "checked"
    /\ UNCHANGED <<settings, financial_data, rules, variance_results,
                   correlation_results, anomalies, first_run, batch>>

NextRegistry == RuleIdCall \/ LookupCall

SpecRegistry == Init /\ [][NextRegistry]_vars

-----------------------------------------------------------------------------
(* Properties *)

\* the variance anomalies detect reported for a result
VarianceAnomaliesOf(r) ==
    SelectSeq(anomalies, LAMBDA a : a.type = "variance" /\ a.account_code = r.account_code)

\* result r clears both thresholds of a tier of the table
MeetsTier(table, tier, r) ==
    /\ RGe(RAbs(r.variance_percent), table[tier].variance_threshold)
    /\ Abs(r.variance_amount) >= table[tier].absolute_threshold

IsCase(r, percent, amount) ==
    r.variance_percent = RInt(percent) /\ r.variance_amount = amount

IsTestCase(r) == IsCase(r, 25, 20000) \/ IsCase(r, 15, 15000) \/ IsCase(r, 7, 7000)

SnapshotRows == financial_data.balance_sheet.rows \o financial_data.income_statement.rows

\* C3: the variance percent of a result is ((current - previous) /
\* |previous|) * 100 when previous is not 0, 100 when previous is 0 and
\* current is not, 0 when both are 0; its variance amount is current -
\* previous.
C3_VariancePercent ==
    pc = "variance" =>
        /\ Len(variance_results) = Len(SnapshotRows)
        /\ \A i \in 1..Len(variance_results) :
            LET r == variance_results[i]
                previous == SnapshotRows[i].values[1]
                current == SnapshotRows[i].values[2]
            IN  /\ r.variance_amount = current - previous
                /\ r.variance_percent.d > 0
                /\ previous # 0 =>
                      r.variance_percent.n * Abs(previous)
                          = (current - previous) * 100 * r.variance_percent.d
                /\ (previous = 0 /\ current # 0) => r.variance_percent = RInt(100)
                /\ (previous = 0 /\ current = 0) => r.variance_percent = RInt(0)

\* C3 witness: a row with previous -40 and current -37 was analysed and its
\* variance percent is 15/2.
C3_Witness ==
    /\ pc = "variance"
    /\ Len(variance_results) = 1
    /\ SnapshotRows[1].values = <<-40, -37>>
    /\ variance_results[1].variance_percent = [n |-> 15, d |-> 2]

\* previous and current show a sign change
SignChanged(previous, current) ==
    \/ previous = 0 /\ current # 0
    \/ previous # 0 /\ current = 0
    \/ previous * current < 0

\* C4: every result whose previous and current values show a sign change is
\* significant, for every category and every configured threshold.
C4_SignChangeSignificant ==
    pc = "variance" =>
        \A i \in 1..Len(variance_results) :
            SignChanged(SnapshotRows[i].values[1], SnapshotRows[i].values[2])
                => variance_results[i].is_significant

\* C4 witness: a result with a sign change is significant although its
\* variance percent is below the threshold configured for its category.
C4_Witness ==
    /\ pc = "variance"
    /\ \E i \in 1..Len(variance_results) :
        LET r == variance_results[i]
        IN  /\ SignChanged(r.previous_value, r.current_value)
            /\ ~RGe(RAbs(r.variance_percent), GetVarianceThreshold(settings, Some(r.category)))
            /\ r.is_significant

\* C5 as stated: a result without sign change is significant exactly when
\* |variance_percent| >= the threshold the configuration gives for its
\* category (the category's own threshold if configured, else the global one).
C5_ConfiguredThreshold ==
    pc = "variance" =>
        \A i \in 1..Len(variance_results) :
            LET r == variance_results[i]
            IN  ~SignChanged(r.previous_value, r.current_value) =>
                    (r.is_significant
                        = RGe(RAbs(r.variance_percent),
                              GetVarianceThreshold(settings, Some(r.category))))

\* the call checked a rule of the relationship type
Checked(relationship) ==
    /\ pc = "checked"
    /\ call # None
    /\ call[1].rule.relationship_type = relationship

\* the whole-percent variances of the call
CallP == call[1].primary_variance.n
CallC == call[1].correlated_variance.n

Lagging(p, c, T) == Abs(p) > T /\ Abs(c) < T
Opposite(p, c, T) == (p > T /\ c < -T) \/ (p < -T /\ c > T)

\* C6: a positive rule reports a violation exactly when |p| > 5 and |c| < 5,
\* or p and c move in opposite directions each beyond 5; in the first case
\* the severity is high if |p| > 10 and medium otherwise, in the second it
\* is high.
C6_PositiveRelationship ==
    Checked("positive") =>
        /\ (check_result # None) = (Lagging(CallP, CallC, 5) \/ Opposite(CallP, CallC, 5))
        /\ Lagging(CallP, CallC, 5) =>
              check_result[1].severity = (IF Abs(CallP) > 10 THEN "high" ELSE "medium")
        /\ Opposite(CallP, CallC, 5) => check_result[1].severity = "high"

\* C6 witness: p = -12, c = +1 was reported high.
C6_Witness ==
    /\ Checked("positive")
    /\ CallP = -12 /\ CallC = 1
    /\ check_result # None
    /\ check_result[1].severity = "high"

\* C7: a negative rule reports a violation exactly when p and c are both
\* above 5 or both below -5, always with severity high.
C7_NegativeRelationship ==
    Checked("negative") =>
        /\ (check_result # None)
              = ((CallP > 5 /\ CallC > 5) \/ (CallP < -5 /\ CallC < -5))
        /\ check_result # None => check_result[1].severity = "high"
        /\ (CallP = 6 /\ CallC = 7) => check_result # None
        /\ (CallP = 6 /\ CallC = -7) => check_result = None

\* C7 witness: p = -6, c = -7 was reported high.
C7_Witness ==
    /\ Checked("negative")
    /\ CallP = -6 /\ CallC = -7
    /\ check_result # None
    /\ check_result[1].severity = "high"

\* C8: a quarterly_cycle rule reports a violation exactly when |p| > 20,
\* with severity medium, and the verdict is the one of every other
\* correlated variance with the same p.
C8_QuarterlyCycle ==
    Checked("quarterly_cycle") =>
        /\ (check_result # None) = (Abs(CallP) > 20)
        /\ check_result # None => check_result[1].severity = "medium"
        /\ \A c \in -MaxVariance..MaxVariance :
              (CheckRuleViolation(call[1].rule, call[1].primary_variance, RInt(c)) # None)
                  = (check_result # None)

\* C8 witness: p = 21 was reported while the correlated account moved as far.
C8_Witness ==
    /\ Checked("quarterly_cycle")
    /\ CallP = 21 /\ CallC = 21
    /\ check_result # None

\* C9 as stated: the positive and negative checks decide with the
\* correlation threshold of the configuration (5 when none is configured).
C9_ConfiguredCorrelationThreshold ==
    LET T == GetCorrelationThreshold(settings)
    IN  /\ Checked("positive") =>
              (check_result # None) = (Lagging(CallP, CallC, T) \/ Opposite(CallP, CallC, T))
        /\ Checked("negative") =>
              (check_result # None)
                  = ((CallP > T /\ CallC > T) \/ (CallP < -T /\ CallC < -T))

\* the rule with the id
RuleById(id) == rules[CHOOSE i \in 1..Len(rules) : rules[i].id = id]

\* C10: analyze emits no result of a disabled rule, and its results are
\* those of analyze over the enabled rules alone.
C10_OnlyEnabledRules ==
    pc = "correlation" =>
        /\ \A k \in 1..Len(correlation_results) :
              RuleById(correlation_results[k].rule_id).enabled
        /\ correlation_results
              = CorrelationAnalyze(SelectSeq(rules, LAMBDA r : r.enabled), financial_data)

\* C10 witness: analyze returned results while a rule that the snapshot
\* violates was disabled.
C10_Witness ==
    /\ pc = "correlation"
    /\ correlation_results # <<>>
    /\ \E i \in 1..Len(rules) :
        /\ ~rules[i].enabled
        /\ AnalyzeRule(rules[i], CombineFinancialData(financial_data)) # <<>>

-----------------------------------------------------------------------------
(* Correlation results *)

\* the results analyze returned for a rule
ResultsOfRule(id) == SelectSeq(correlation_results, LAMBDA r : r.rule_id = id)

\* the accounts of a category that the snapshot holds
PresentAccounts(category) ==
    GetAccountsByCategory(CombineFinancialData(financial_data), category)

\* C11: for every enabled rule, analyze returns exactly one result for each
\* pair of a present primary account and a present correlated account, so a
\* rule has (primary accounts present) x (correlated accounts present)
\* results, none when one side is missing
C11_OneResultPerPair ==
    pc = "correlation" =>
        \A i \in 1..Len(rules) :
            (rules[i].enabled
             /\ ~MapperAccountsByCategoryRaises(rules[i].primary_account_category)) =>
                LET primary == PresentAccounts(rules[i].primary_account_category)
                    correlated == PresentAccounts(rules[i].correlated_account_category)
                IN  /\ Len(ResultsOfRule(rules[i].id)) = Len(primary) * Len(correlated)
                    /\ \A p \in 1..Len(primary), c \in 1..Len(correlated) :
                          Len(SelectSeq(ResultsOfRule(rules[i].id),
                                        LAMBDA r : /\ r.primary_account = primary[p]
                                                   /\ r.correlated_account = correlated[c])) = 1

\* the account codes of the catalog in ascending order of their text
CodesAscending == <<
    "112227001", "112227002", "131100001", "133100001", "138820000", "138821001",
    "138900003", "213100001", "217000001", "217000006", "341160000", "341160001",
    "511100001", "511100002", "515100001", "515600000", "622000001", "622000002",
    "622000003", "632100001", "632100002", "635000005", "635000006", "641100001" >>

CodeRank(code) == CHOOSE i \in 1..Len(CodesAscending) : CodesAscending[i] = code

\* (r.rule_id, r.primary_account, r.correlated_account) <= the same of s
ResultKeyLeq(r, s) ==
    \/ r.rule_id < s.rule_id
    \/ /\ r.rule_id = s.rule_id
       /\ \/ CodeRank(r.primary_account) < CodeRank(s.primary_account)
          \/ /\ r.primary_account = s.primary_account
             /\ CodeRank(r.correlated_account) <= CodeRank(s.correlated_account)

\* C12: the list analyze returns is ordered by rule id, then primary
\* account, then correlated account
C12_ResultsOrdered ==
    pc = "correlation" =>
        \A i \in 1..Len(correlation_results), j \in 1..Len(correlation_results) :
            i < j => ResultKeyLeq(correlation_results[i], correlation_results[j])

\* both investment properties violate rule 1 against both depreciation
\* accounts, and another rule reports as well
C12_Witness ==
    /\ pc = "correlation"
    /\ Len(ResultsOfRule(1)) = 4
    /\ ResultsOfRule(1)[2].primary_account = "217000001"
    /\ ResultsOfRule(1)[2].correlated_account = "632100002"
    /\ ResultsOfRule(1)[3].primary_account = "217000006"
    /\ Len(ResultsOfRule(4)) = 1
    /\ Len(ResultsOfRule(7)) = 2

\* what a rule with a list of primary categories is to return: the results
\* of the rule over each listed category in turn
RECURSIVE UnionResults(_, _, _, _)
UnionResults(rule, categories, data, i) ==
    IF i > Len(categories)
    THEN <<>>
    ELSE AnalyzeRule([rule EXCEPT !.primary_account_category = categories[i]], data)
         \o UnionResults(rule, categories, data, i + 1)

\* C13: a rule whose primary category is a list is evaluated against the
\* accounts of all listed categories, a one-element list like the single
\* category, and analyze does not raise
C13_ListPrimaryCategory ==
    \A i \in 1..Len(rules) :
        (/\ pc \in {"correlation", "error"}
         /\ rules[i].enabled
         /\ MapperAccountsByCategoryRaises(rules[i].primary_account_category)
         /\ "account_code" \in CombineFinancialData(financial_data).columns) =>
            /\ pc = "correlation"
            /\ ResultsOfRule(rules[i].id)
                 = UnionResults(rules[i], ListCategories[rules[i].primary_account_category],
                                CombineFinancialData(financial_data), 1)

-----------------------------------------------------------------------------
(* Registry *)

CatalogIds == {ALL_RULES[i].rule_id : i \in 1..Len(ALL_RULES)}

\* C14: correlation_rule_id(n) is CR followed by n zero-padded to three
\* digits (CR007 for 7); for the ids 1..13 of the engine's rules the lookup
\* of that string finds the entry with that rule_id; the lookup of an id
\* that is not in the catalog returns not-found
C14_CorrelationRuleId ==
    (pc = "checked" /\ call # None) =>
        /\ "numeric_id" \in DOMAIN call[1] =>
            LET n == call[1].numeric_id
            IN  /\ n < 1000 =>
                      call[1].rule_id = "CR" \o Digit[(n \div 100) + 1]
                                             \o Digit[((n \div 10) % 10) + 1]
                                             \o Digit[(n % 10) + 1]
                /\ n >= 1000 => call[1].rule_id = "CR" \o DecimalString(n)
                /\ n = 7 => call[1].rule_id = "CR007"
                /\ (\E i \in 1..Len(rules) : rules[i].id = n) =>
                      /\ check_result # None
                      /\ check_result[1].rule_id = call[1].rule_id
        /\ call[1].rule_id \in CatalogIds =>
              check_result # None /\ check_result[1].rule_id = call[1].rule_id
        /\ call[1].rule_id \notin CatalogIds => check_result = None

\* the id of rule 7 is looked up
C14_Witness ==
    /\ pc = "checked"
    /\ call # None
    /\ "numeric_id" \in DOMAIN call[1]
    /\ call[1].numeric_id = 7
    /\ call[1].rule_id = "CR007"
    /\ check_result # None
    /\ check_result[1].rule_name = "Capital Expenditure vs VAT Deductible Correlation"

-----------------------------------------------------------------------------
(* The passes of detect *)

\* the anomaly was made from the result
MadeFrom(a, r) ==
    /\ a.account_code = r.account_code
    /\ a.category = r.category
    /\ a.current_value = r.current_value
    /\ a.previous_value = Some(r.previous_value)
    /\ a.variance_percent = r.variance_percent

\* how many anomalies of a type detect returned for the result
CountAnomalies(type, r) ==
    Cardinality({i \in 1..Len(anomalies) : anomalies[i].type = type /\ MadeFrom(anomalies[i], r)})

\* how many results of the list carry the values of r and satisfy Cond
CountResults(r, Cond(_)) ==
    Cardinality({i \in 1..Len(variance_results) :
                    /\ variance_results[i].account_code = r.account_code
                    /\ variance_results[i].category = r.category
                    /\ variance_results[i].current_value = r.current_value
                    /\ variance_results[i].previous_value = r.previous_value
                    /\ Cond(variance_results[i])})

\* the materiality levels of the configuration that list the account
LevelsListing(account_code) ==
    SelectSeq(Get(settings.account_mappings, "materiality_thresholds", <<>>),
              LAMBDA level : "accounts" \in DOMAIN level /\ InList(account_code, level.accounts))

\* the rule a variance anomaly of the result is to be attributed to
AttributedRule(r) ==
    IF LevelsListing(r.account_code) # <<>>
    THEN LET level == LevelsListing(r.account_code)[1]
             threshold == IF "threshold" \in DOMAIN level THEN level.threshold ELSE 5
         IN  IF threshold <= 3 THEN "MT001"
             ELSE IF threshold <= 5 THEN "MT002"
             ELSE "MT003"
    ELSE IF r.category \in {"opex", "staff_costs", "other_expenses"} THEN "VT002"
    ELSE IF r.category = "borrowings" THEN "VT003"
    ELSE IF r.category = "depreciation" THEN "VT005"
    ELSE "VT001"

\* C15: a variance anomaly is attributed to the materiality rule of the
\* configured threshold when its account is listed in a materiality level,
\* and only otherwise to the rule of its category
C15_MaterialityPrecedence ==
    pc = "detected" =>
        \A i \in 1..Len(variance_results) :
            LET r == variance_results[i]
            IN  r.is_significant =>
                    /\ CountAnomalies("variance", r) > 0
                    /\ \A k \in 1..Len(anomalies) :
                          (anomalies[k].type = "variance" /\ MadeFrom(anomalies[k], r)) =>
                              anomalies[k].rule_violation_id = AttributedRule(r)

\* an account listed at threshold 3 and again in a later level is
\* attributed to MT001, next to an unlisted staff-cost account under VT002
C15_Witness ==
    /\ pc = "detected"
    /\ LevelsListing("217000001") # <<>>
    /\ Len(LevelsListing("217000001")) = 2
    /\ LevelsListing("217000001")[1].threshold = 3
    /\ \E k \in 1..Len(anomalies) :
          /\ anomalies[k].type = "variance"
          /\ anomalies[k].account_code = "217000001"
          /\ anomalies[k].rule_violation_id = "MT001"
    /\ \E k \in 1..Len(anomalies) :
          /\ anomalies[k].type = "variance"
          /\ anomalies[k].category = "staff_costs"
          /\ anomalies[k].rule_violation_id = "VT002"

OneSideZero(r) == (r.previous_value = 0) # (r.current_value = 0)

OppositeSigns(r) ==
    \/ r.previous_value > 0 /\ r.current_value < 0
    \/ r.previous_value < 0 /\ r.current_value > 0

AnyResult(r) == TRUE

\* C16: every result with a sign change, significant or not, yields exactly
\* one sign_change anomaly, of severity high, attributed to SC002 when
\* exactly one of previous/current is zero and to SC001 when both are
\* non-zero with opposite signs; a result without sign change yields none
C16_SignChangeAnomalies ==
    pc = "detected" =>
        \A i \in 1..Len(variance_results) :
            LET r == variance_results[i]
            IN  /\ CountAnomalies("sign_change", r)
                     = (IF OneSideZero(r) \/ OppositeSigns(r)
                        THEN CountResults(r, AnyResult) ELSE 0)
                /\ \A k \in 1..Len(anomalies) :
                      (anomalies[k].type = "sign_change" /\ MadeFrom(anomalies[k], r)) =>
                          /\ anomalies[k].severity = "high"
                          /\ OneSideZero(r) => anomalies[k].rule_violation_id = "SC002"
                          /\ OppositeSigns(r) => anomalies[k].rule_violation_id = "SC001"

\* a result that is not significant and moved from zero is reported under
\* SC002, next to a result that turned negative under SC001
C16_Witness ==
    /\ pc = "detected"
    /\ \E i \in 1..Len(variance_results), k \in 1..Len(anomalies) :
          /\ ~variance_results[i].is_significant
          /\ variance_results[i].previous_value = 0
          /\ anomalies[k].type = "sign_change"
          /\ MadeFrom(anomalies[k], variance_results[i])
          /\ anomalies[k].rule_violation_id = "SC002"
    /\ \E k \in 1..Len(anomalies) :
          /\ anomalies[k].type = "sign_change"
          /\ anomalies[k].rule_violation_id = "SC001"
          /\ anomalies[k].current_value < 0

\* the configured recurring-stability threshold: the tolerance under the
\* key the pass asks for, 5 when none is configured
RecurringThreshold ==
    LET tolerances == Get(settings.thresholds, "account_tolerances", EmptyDict)
    IN  IF "recurring" \in DOMAIN tolerances THEN tolerances["recurring"] ELSE 5

RecurringSpikeDue(r) ==
    /\ InList(r.account_code,
              Get(Get(settings.account_mappings, "analysis_categories", EmptyDict),
                  "recurring_accounts", <<>>))
    /\ RGe(RAbs(r.variance_percent), RecurringThreshold)

\* C17: detect reports a recurring_spike anomaly for a result exactly when
\* its account is in the configured recurring set and |variance_percent|
\* reaches the recurring-stability threshold, attributed to RA001 with the
\* AND-logic severity; depreciation account 632100001 with a 14% variance
\* yields a recurring_spike anomaly
C17_RecurringSpike ==
    pc = "detected" =>
        \A i \in 1..Len(variance_results) :
            LET r == variance_results[i]
            IN  /\ CountAnomalies("recurring_spike", r) = CountResults(r, RecurringSpikeDue)
                /\ \A k \in 1..Len(anomalies) :
                      (anomalies[k].type = "recurring_spike" /\ MadeFrom(anomalies[k], r)) =>
                          /\ anomalies[k].rule_violation_id = "RA001"
                          /\ \A tier \in {"critical", "high", "medium"} :
                                anomalies[k].severity = tier =>
                                    MeetsTier(GetSeverityThresholds(settings), tier, r)
                /\ (r.account_code = "632100001" /\ r.variance_percent = RInt(14)) =>
                      CountAnomalies("recurring_spike", r) > 0

\* the quarterly threshold configured for a category, 30 when it has none
QuarterlyThreshold(category) ==
    LET patterns == Get(settings.thresholds, "quarterly_patterns", EmptyDict)
    IN  IF category \in DOMAIN patterns /\ "end_quarter_peak" \in DOMAIN patterns[category]
        THEN patterns[category]["end_quarter_peak"]
        ELSE 30

\* the first tier, from critical down, whose two thresholds the result meets
AndLogicSeverity(r) ==
    LET table == GetSeverityThresholds(settings)
    IN  IF MeetsTier(table, "critical", r) THEN "critical"
        ELSE IF MeetsTier(table, "high", r) THEN "high"
        ELSE IF MeetsTier(table, "medium", r) THEN "medium"
        ELSE "low"

\* C18: a quarterly_pattern anomaly is reported only for a result whose
\* account is in the configured cyclical set and whose |variance_percent|
\* exceeds the quarterly threshold of its category (30 when none is
\* configured); it is attributed to QP001 for trade_receivables and to QP002
\* for every other category, with the AND-logic severity
C18_QuarterlyPattern ==
    pc = "detected" =>
        \A k \in 1..Len(anomalies) :
            anomalies[k].type = "quarterly_pattern" =>
                \E i \in 1..Len(variance_results) :
                    LET r == variance_results[i]
                    IN  /\ MadeFrom(anomalies[k], r)
                        /\ InList(r.account_code,
                                  Get(Get(settings.account_mappings, "analysis_categories",
                                          EmptyDict), "cyclical_accounts", <<>>))
                        /\ RGt(RAbs(r.variance_percent), QuarterlyThreshold(r.category))
                        /\ anomalies[k].rule_violation_id
                             = (IF r.category = "trade_receivables" THEN "QP001" ELSE "QP002")
                        /\ anomalies[k].severity = AndLogicSeverity(r)

\* a trade receivable at 13% over its configured threshold of 12 is
\* reported under QP001, next to revenue at 31% under QP002 as critical
C18_Witness ==
    /\ pc = "detected"
    /\ QuarterlyThreshold("trade_receivables") = 12
    /\ \E k \in 1..Len(anomalies) :
          /\ anomalies[k].type = "quarterly_pattern"
          /\ anomalies[k].category = "trade_receivables"
          /\ anomalies[k].variance_percent = RInt(13)
          /\ anomalies[k].rule_violation_id = "QP001"
    /\ \E k \in 1..Len(anomalies) :
          /\ anomalies[k].type = "quarterly_pattern"
          /\ anomalies[k].category = "revenue"
          /\ anomalies[k].variance_percent = RInt(31)
          /\ anomalies[k].rule_violation_id = "QP002"
          /\ anomalies[k].severity = "critical"

-----------------------------------------------------------------------------
(* The ranked list *)

\* the anomalies in the order the five passes append them
Appended ==
    DetectVarianceAnomalies(settings, variance_results)
        \o DetectCorrelationAnomalies(correlation_results)
        \o DetectSignChanges(variance_results)
        \o DetectRecurringAccountAnomalies(settings, variance_results)
        \o DetectQuarterlyPatternBreaks(settings, variance_results)

SeverityRank(a) ==
    IF a.severity = "critical" THEN 4
    ELSE IF a.severity = "high" THEN 3
    ELSE IF a.severity = "medium" THEN 2
    ELSE 1

\* |variance_percent| of a against that of b: -1, 0 or 1
CompareMagnitude(a, b) ==
    LET x == Abs(a.variance_percent.n) * b.variance_percent.d
        y == Abs(b.variance_percent.n) * a.variance_percent.d
    IN  IF x < y THEN -1 ELSE IF x = y THEN 0 ELSE 1

SameKey(a, b) == SeverityRank(a) = SeverityRank(b) /\ CompareMagnitude(a, b) = 0

HigherKey(a, b) ==
    \/ SeverityRank(a) > SeverityRank(b)
    \/ SeverityRank(a) = SeverityRank(b) /\ CompareMagnitude(a, b) = 1

\* where the k-th anomaly of the list belongs: behind every anomaly of a
\* higher key and behind the earlier ones of its own key
RankedPosition(list, k) ==
    1 + Cardinality({j \in 1..Len(list) : HigherKey(list[j], list[k])})
      + Cardinality({j \in 1..(k - 1) : SameKey(list[j], list[k])})

\* C19: detect returns the anomalies appended by the five passes in a
\* stable descending order of (severity rank, |variance_percent|): keys do
\* not increase along the list, nothing is dropped or duplicated, anomalies
\* of equal key keep their detection order
C19_StableRanking ==
    pc = "detected" =>
        /\ LET list == Appended
           IN  /\ Len(anomalies) = Len(list)
               /\ \A k \in 1..Len(list) : anomalies[RankedPosition(list, k)] = list[k]
        /\ \A i \in 1..Len(anomalies), j \in 1..Len(anomalies) :
              i < j => ~HigherKey(anomalies[j], anomalies[i])

\* all five passes report; a quarterly anomaly is ranked ahead of a variance
\* anomaly, and a variance anomaly stays ahead of the recurring anomaly of
\* the same key
C19_Witness ==
    /\ pc = "detected"
    /\ \A type \in {"variance", "correlation", "sign_change", "recurring_spike",
                     "quarterly_pattern"} :
          \E k \in 1..Len(anomalies) : anomalies[k].type = type
    /\ \E i \in 1..Len(anomalies), j \in 1..Len(anomalies) :
          /\ i < j
          /\ anomalies[i].type = "quarterly_pattern"
          /\ anomalies[j].type = "variance"
    /\ \E i \in 1..Len(anomalies), j \in 1..Len(anomalies) :
          /\ i < j
          /\ anomalies[i].type = "variance"
          /\ anomalies[j].type = "recurring_spike"
          /\ SameKey(anomalies[i], anomalies[j])

-----------------------------------------------------------------------------
(* Two runs *)

-----------------------------------------------------------------------------
(* End to end *)

\* the snapshot holds the account with these two period values
HasRow(account_code, pair) ==
    \E i \in 1..Len(SnapshotRows) :
        SnapshotRows[i].account_code = account_code /\ SnapshotRows[i].values = pair

\* C21: when 217000001 goes from 1,000,000,000 to 1,200,000,000 and
\* 632100001 moves by +4%, the output of the pipeline holds a variance
\* anomaly on 217000001 of severity high or critical and a correlation
\* anomaly on 217000001 attributed to CR001
C21_EndToEnd ==
    (/\ pc = "detected"
     /\ HasRow("217000001", <<1000000000, 1200000000>>)
     /\ HasRow("632100001", <<50000, 52000>>)
     /\ RuleById(1).enabled) =>
        /\ \E k \in 1..Len(anomalies) :
              /\ anomalies[k].type = "variance"
              /\ anomalies[k].account_code = "217000001"
              /\ anomalies[k].severity \in {"high", "critical"}
        /\ \E k \in 1..Len(anomalies) :
              /\ anomalies[k].type = "correlation"
              /\ anomalies[k].account_code = "217000001"
              /\ anomalies[k].rule_violation_id = "CR001"

\* the run on that snapshot has ended with rule 1 in force, the variance
\* anomaly ranked first as critical
C21_Witness ==
    /\ pc = "detected"
    /\ HasRow("217000001", <<1000000000, 1200000000>>)
    /\ HasRow("632100001", <<50000, 52000>>)
    /\ RuleById(1).enabled
    /\ anomalies[1].type = "variance"
    /\ anomalies[1].severity = "critical"
    /\ anomalies[1].variance_percent = RInt(20)

-----------------------------------------------------------------------------
(* VarianceAnalyzer.analyze on statements of every shape *)

\* a statement with the text columns in columns besides statement_type
ShapeFrame(columns, periods, rows) ==
    [columns |-> columns \cup {"statement_type"}, periods |-> periods, rows |-> rows]

\* the shapes of one statement holding the accounts a and b: missing, empty,
\* without rows, without a required column, with no, one, two or three
\* period columns, with a row whose account code is empty or missing (NaN)
StatementShapes(a, b) ==
    LET AllColumns == {"account_code", "account_name"}
        two(code) == <<Row(a, <<1000, 1200>>), Row(code, <<500, 700>>), Row(b, <<400, 416>>)>>
    IN  { None, EmptyFrame,
          ShapeFrame(AllColumns, Periods, <<>>),
          ShapeFrame({"account_name"}, Periods, two("")),
          ShapeFrame({"account_code"}, Periods, two("")),
          ShapeFrame(AllColumns, <<>>, <<Row(a, <<>>), Row(b, <<>>)>>),
          ShapeFrame(AllColumns, <<"May_2025">>, <<Row(a, <<1200>>), Row(b, <<416>>)>>),
          ShapeFrame(AllColumns, Periods, <<Row(a, <<1000, 1200>>), Row(b, <<400, 416>>)>>),
          ShapeFrame(AllColumns, Periods, two("")),
          ShapeFrame(AllColumns, Periods, two("nan")),
          ShapeFrame(AllColumns, <<"Mar_2025", "Apr_2025", "May_2025">>,
                     <<Row(a, <<900, 1000, 1200>>), Row(b, <<500, 400, 416>>)>>) }

ShapeSnapshots ==
    { [balance_sheet |-> bs, income_statement |-> is] :
        bs \in StatementShapes("217000001", "131100001"),
        is \in StatementShapes("632100001", "511100001") }

LoadShape ==
    /\ pc = "start"
    /\ \E fd \in ShapeSnapshots : financial_data' = fd
    /\ pc' = "loaded"
    /\ UNCHANGED <<settings, rules, variance_results, correlation_results,
                   anomalies, call, check_result, first_run, batch>>

NextShape == LoadShape \/ Analyze

SpecShape == Init /\ [][NextShape]_vars

\* the statement has a shape the analysis cannot use
Unusable(df) ==
    \/ df = None
    \/ df.rows = <<>>
    \/ ~({"account_code", "account_name"} \subseteq df.columns)
    \/ Len(df.periods) < 2

\* what the rows of a usable statement yield one by one, each analysed as
\* the only row of the statement; a row without account code yields nothing
RowByRow(df, statement_type) ==
    LET alone(i) == IF df.rows[i].account_code \in {"", "nan"}
                    THEN <<>>
                    ELSE AnalyzeStatement(settings, [df EXCEPT !.rows = <<df.rows[i]>>],
                                          statement_type)
        upto[i \in 0..Len(df.rows)] == IF i = 0 THEN <<>> ELSE upto[i - 1] \o alone(i)
    IN  upto[Len(df.rows)]

Contribution(df, statement_type) ==
    IF Unusable(df) THEN <<>> ELSE RowByRow(df, statement_type)

\* C22: analyze returns, whatever the shape of the statements: a statement
\* that is missing, empty, without account_code or account_name or with
\* fewer than two period columns contributes nothing, a row without account
\* code is skipped, and the other statement and the other rows yield what
\* they yield on their own
C22_DataShapes ==
    pc = "variance" =>
        variance_results = Contribution(financial_data.balance_sheet, "BS")
                            \o Contribution(financial_data.income_statement, "IS")

\* the balance sheet has one period column, the income statement a row
\* without account code between two analysed rows
C22_Witness ==
    /\ pc = "variance"
    /\ financial_data.balance_sheet # None
    /\ Len(financial_data.balance_sheet.periods) = 1
    /\ financial_data.income_statement # None
    /\ Len(financial_data.income_statement.rows) = 3
    /\ financial_data.income_statement.rows[2].account_code = ""
    /\ Len(variance_results) = 2
    /\ variance_results[1].account_code = "632100001"
    /\ variance_results[2].account_code = "511100001"

-----------------------------------------------------------------------------
(* AnomalyDetector.detect under a severity table that lacks a tier *)

WithoutTier(table, tier) == [k \in DOMAIN table \ {tier} |-> table[k]]

\* the default table, complete and with one tier removed
TierTables ==
    {DefaultSeverityLevels}
    \cup { WithoutTier(DefaultSeverityLevels, tier) : tier \in {"critical", "high", "medium"} }

InitTable ==
    /\ pc = "start"
    /\ \E table \in TierTables :
        settings = [thresholds |-> WithKey(DefaultThresholds, "severity_levels", table),
                    account_mappings |-> DefaultAccountMappings]
    /\ financial_data = NoFinancialData
    /\ rules = InitializeRules
    /\ variance_results = <<>>
    /\ correlation_results = <<>>
    /\ anomalies = <<>>
    /\ call = None
    /\ check_result = None
    /\ first_run = None
    /\ batch = None

\* detector.detect(variance_results, [], financial_data): the list it
\* returns, or the KeyError it raises
DetectTable ==
    /\ pc = "start"
    /\ \E list \in DetectLists :
        /\ variance_results' = Numbered(list)
        /\ IF DetectRaises(settings, Numbered(list))
           THEN /\ pc' = "error"
                /\ UNCHANGED anomalies
           ELSE /\ pc' = "detected"
                /\ anomalies' = Detect(settings, Numbered(list), <<>>)
    /\ UNCHANGED <<settings, financial_data, rules, correlation_results,
                   call, check_result, first_run, batch>>

NextTable == DetectTable

SpecTable == InitTable /\ [][NextTable]_vars

\* C23: under a severity table that lacks critical, high or medium, detect
\* on a list holding a significant result raises whatever the percentage
\* and the amount of the result; under a complete table detect returns
C23_MalformedTableRaises ==
    pc \in {"detected", "error"} =>
        IF DOMAIN GetSeverityThresholds(settings) = {"critical", "high", "medium"}
        THEN pc = "detected"
        ELSE (\E i \in 1..Len(variance_results) : variance_results[i].is_significant)
                => pc = "error"

-----------------------------------------------------------------------------
(* The accessors called on the list detect returned *)

AnomalyTypes ==
    {"variance", "correlation", "sign_change", "recurring_spike", "quarterly_pattern"}

\* detector.detect([], [], financial_data)
DetectEmpty ==
    /\ pc = "start"
    /\ variance_results' = <<>>
    /\ correlation_results' = <<>>
    /\ anomalies' = Detect(settings, <<>>, <<>>)
    /\ pc' = "detected"
    /\ UNCHANGED <<settings, financial_data, rules, call, check_result, first_run, batch>>

\* detector.get_critical_anomalies(anomalies): the caller keeps the list it
\* passed (given) and the list it got back
GetCriticalAnomalies ==
    /\ pc = "detected"
    /\ call' = Some([accessor |-> "get_critical_anomalies", wanted |-> "critical",
                     given |-> anomalies, returned |-> get_critical_anomalies(anomalies)])
    /\ pc' = "read"
    /\ UNCHANGED <<settings, financial_data, rules, variance_results,
                   correlation_results, anomalies, check_result, first_run, batch>>

\* detector.get_anomalies_by_type(anomalies, anomaly_type)
GetAnomaliesByType ==
    /\ pc = "detected"
    /\ \E anomaly_type \in AnomalyTypes :
        call' = Some([accessor |-> "get_anomalies_by_type", wanted |-> anomaly_type,
                      given |-> anomalies,
                      returned |-> get_anomalies_by_type(anomalies, anomaly_type)])
    /\ pc' = "read"
    /\ UNCHANGED <<settings, financial_data, rules, variance_results,
                   correlation_results, anomalies, check_result, first_run, batch>>

NextAccess == DetectEmpty \/ PassesCall \/ GetCriticalAnomalies \/ GetAnomaliesByType

SpecAccess == Init /\ [][NextAccess]_vars

\* the positions of list whose anomaly has the wanted severity or type
Matching(list, accessor, wanted) ==
    { i \in 1..Len(list) :
        IF accessor = "get_critical_anomalies"
        THEN list[i].severity = wanted
        ELSE list[i].type = wanted }

\* C24: an accessor returns exactly the anomalies of the list that have the
\* requested severity or type, in the order they have in the list, and the
\* list is after the call what it was before; on the empty list it returns
\* the empty list
C24_PureReads ==
    pc = "read" =>
        LET c == call[1]
            hits == Matching(c.given, c.accessor, c.wanted)
        IN  /\ anomalies = c.given
            /\ Len(c.returned) = Cardinality(hits)
            /\ \A i \in hits :
                  c.returned[Cardinality({j \in hits : j <= i})] = c.given[i]
            /\ (c.given = <<>> => c.returned = <<>>)

\* get_anomalies_by_type has returned the sign change of a list of four or
\* more anomalies that starts with another type
C24_Witness ==
    /\ pc = "read"
    /\ call[1].accessor = "get_anomalies_by_type"
    /\ call[1].wanted = "sign_change"
    /\ Len(call[1].returned) >= 1
    /\ Len(anomalies) >= 4
    /\ anomalies[1].type # "sign_change"

-----------------------------------------------------------------------------
(* BatchProcessor.  A file is [file_path, readable, financial_data,       *)
(* report_raises]: what the loader makes of it and whether the report     *)
(* can be written.  A ProcessingResult is kept without its times and      *)
(* sizes.                                                                  *)

\* most files in one batch
MaxFiles == 2

\* _process_single_file: the try block step by step, the except clause
ProcessSingleFile(s, rs, file) ==
    LET failure(message) ==
            [file_path |-> file.file_path, success |-> FALSE,
             error_message |-> Some(message), anomaly_count |-> None,
             variance_count |-> None, correlation_violations |-> None]
        fd == file.financial_data
        vrs == VarianceAnalyze(s, fd)
        crs == CorrelationAnalyze(rs, fd)
    IN  IF ~file.readable
        THEN failure("Unable to process: No suitable loading strategy succeeded")
        ELSE IF CorrelationAnalyzeRaises(rs, fd)
        THEN failure("correlation analysis")
        ELSE IF DetectRaises(s, vrs)
        THEN failure("anomaly detection")
        ELSE IF file.report_raises
        THEN failure("report generation")
        ELSE IF crs # <<>>
        THEN failure("'CorrelationResult' object has no attribute 'get'")
        ELSE [file_path |-> file.file_path, success |-> TRUE,
              error_message |-> None,
              anomaly_count |-> Some(Len(Detect(s, vrs, crs))),
              variance_count |-> Some(Len(vrs)),
              correlation_violations |-> Some(0)]

\* what a file can hold: nothing the loader can read, a revenue account
\* alone, an investment property with its depreciation, and any of the two
\* with a report that cannot be written
FileContents ==
    LET quiet == [balance_sheet |-> EmptyFrame,
                  income_statement |-> Frame(<<Row("511100001", <<200000, 208000>>)>>)]
        correlated == [balance_sheet |-> Frame(<<Row("217000001", <<1000000, 1200000>>)>>),
                       income_statement |-> Frame(<<Row("632100001", <<50000, 52000>>)>>)]
    IN  { [readable |-> FALSE, financial_data |-> NoFinancialData, report_raises |-> FALSE],
          [readable |-> TRUE, financial_data |-> quiet, report_raises |-> FALSE],
          [readable |-> TRUE, financial_data |-> correlated, report_raises |-> FALSE],
          [readable |-> TRUE, financial_data |-> quiet, report_raises |-> TRUE] }

\* the sorted file lists of a batch
BatchFiles ==
    UNION { { [i \in 1..n |->
                [file_path |-> "file" \o DecimalString(i) \o ".xlsx",
                 readable |-> contents[i].readable,
                 financial_data |-> contents[i].financial_data,
                 report_raises |-> contents[i].report_raises]] :
              contents \in [1..n -> FileContents] } : n \in 1..MaxFiles }

\* BatchConfig: progress_callback is whether a callback is given
BatchConfigs ==
    [max_workers : {1, 2}, continue_on_error : BOOLEAN,
     timeout_minutes : {None, Some(30)}, progress_callback : BOOLEAN]

InitBatch ==
    /\ pc = "start"
    /\ settings = DefaultSettings
    /\ financial_data = NoFinancialData
    /\ rules = InitializeRules
    /\ variance_results = <<>>
    /\ correlation_results = <<>>
    /\ anomalies = <<>>
    /\ call = None
    /\ check_result = None
    /\ first_run = None
    /\ \E files \in BatchFiles, config \in BatchConfigs :
        batch = [files |-> files, config |-> config,
                 status |-> [i \in 1..Len(files) |-> "new"],
                 outcome |-> [i \in 1..Len(files) |-> None],
                 yielded |-> {}, results |-> <<>>, stopped |-> FALSE]

\* _process_files_parallel: executor.submit for every file
Submit ==
    /\ pc = "start"
    /\ batch' = [batch EXCEPT !.status = [i \in DOMAIN batch.status |-> "pending"]]
    /\ pc' = "collecting"
    /\ UNCHANGED <<settings, financial_data, rules, variance_results,
                   correlation_results, anomalies, call, check_result, first_run>>

\* a free worker thread takes the oldest queued future
WorkerStart ==
    /\ pc = "collecting"
    /\ Cardinality({i \in DOMAIN batch.status : batch.status[i] = "running"})
          < batch.config.max_workers
    /\ \E i \in DOMAIN batch.status :
        /\ batch.status[i] = "pending"
        /\ \A j \in 1..(i - 1) : batch.status[j] # "pending"
        /\ batch' = [batch EXCEPT !.status[i] = "running"]
    /\ UNCHANGED <<pc, settings, financial_data, rules, variance_results,
                   correlation_results, anomalies, call, check_result, first_run>>

\* the worker returns from _process_single_file: the future is done
WorkerFinish ==
    /\ pc = "collecting"
    /\ \E i \in DOMAIN batch.status :
        /\ batch.status[i] = "running"
        /\ batch' = [batch EXCEPT
                        !.status[i] = "finished",
                        !.outcome[i] = Some(ProcessSingleFile(settings, rules, batch.files[i]))]
    /\ UNCHANGED <<pc, settings, financial_data, rules, variance_results,
                   correlation_results, anomalies, call, check_result, first_run>>

\* one turn of the as_completed loop on a future that is done: the result
\* is appended; a failure without continue_on_error cancels the queued
\* futures and leaves the loop; the progress callback is called and, when
\* it raises, the except clause appends an error result
Collect ==
    /\ pc = "collecting"
    /\ ~batch.stopped
    /\ \E i \in DOMAIN batch.status, callback_raises \in BOOLEAN :
        LET result == batch.outcome[i][1]
            error_result ==
                [file_path |-> batch.files[i].file_path, success |-> FALSE,
                 error_message |-> Some("Unexpected error"), anomaly_count |-> None,
                 variance_count |-> None, correlation_violations |-> None]
        IN  /\ batch.status[i] = "finished"
            /\ i \notin batch.yielded
            /\ IF ~result.success /\ ~batch.config.continue_on_error
               THEN /\ ~callback_raises
                    /\ batch' = [batch EXCEPT
                          !.yielded = @ \cup {i},
                          !.results = Append(@, result),
                          !.stopped = TRUE,
                          !.status = [j \in DOMAIN @ |->
                                        IF @[j] = "pending" THEN "cancelled" ELSE @[j]]]
               ELSE /\ callback_raises => batch.config.progress_callback
                    /\ batch' = [batch EXCEPT
                          !.yielded = @ \cup {i},
                          !.results = IF callback_raises
                                      THEN @ \o <<result, error_result>>
                                      ELSE Append(@, result)]
    /\ UNCHANGED <<pc, settings, financial_data, rules, variance_results,
                   correlation_results, anomalies, call, check_result, first_run>>

\* as_completed raises TimeoutError: the time is over and a future it has
\* not yielded is not done; the error leaves _process_files_parallel
Timeout ==
    /\ pc = "collecting"
    /\ ~batch.stopped
    /\ batch.config.timeout_minutes # None
    /\ \E i \in DOMAIN batch.status :
        i \notin batch.yielded /\ batch.status[i] \in {"pending", "running"}
    /\ pc' = "error"
    /\ UNCHANGED <<settings, financial_data, rules, variance_results,
                   correlation_results, anomalies, call, check_result, first_run, batch>>

\* the loop is over, the executor has waited for its workers: return results
Return ==
    /\ pc = "collecting"
    /\ batch.stopped \/ batch.yielded = DOMAIN batch.status
    /\ \A i \in DOMAIN batch.status : batch.status[i] \in {"finished", "cancelled"}
    /\ pc' = "returned"
    /\ UNCHANGED <<settings, financial_data, rules, variance_results,
                   correlation_results, anomalies, call, check_result, first_run, batch>>

NextBatch == Submit \/ WorkerStart \/ WorkerFinish \/ Collect \/ Timeout \/ Return

SpecBatch == InitBatch /\ [][NextBatch]_vars

\* the results recorded for the file at position i
ResultsOf(i) ==
    SelectSeq(batch.results, LAMBDA r : r.file_path = batch.files[i].file_path)

\* C25: with continue_on_error, whatever the files and the order in which
\* the workers finish, _process_files_parallel returns one ProcessingResult
\* for every file it submitted: the result the file yields on its own, a
\* failure with its error message when its processing raised
C25_ErrorIsolation ==
    (pc \in {"returned", "error"} /\ batch.config.continue_on_error) =>
        /\ pc = "returned"
        /\ Len(batch.results) = Len(batch.files)
        /\ \A i \in 1..Len(batch.files) :
              ResultsOf(i) = <<ProcessSingleFile(settings, rules, batch.files[i])>>

\* every step of the pipeline completes on the file
StepsComplete(file) ==
    /\ file.readable
    /\ ~CorrelationAnalyzeRaises(rules, file.financial_data)
    /\ ~DetectRaises(settings, VarianceAnalyze(settings, file.financial_data))
    /\ ~file.report_raises

\* C30: _process_single_file returns success = true with the three counts
\* whenever loading, the three analyses and the report complete, also when
\* the correlation engine returned results; success = false only when one
\* of the steps raised
C30_SuccessWhenStepsComplete ==
    pc \in {"collecting", "returned", "error"} =>
        \A i \in 1..Len(batch.files) :
            batch.outcome[i] # None =>
                LET result == batch.outcome[i][1]
                    fd == batch.files[i].financial_data
                IN  /\ result.success = StepsComplete(batch.files[i])
                    /\ result.success =>
                          /\ result.variance_count = Some(Len(VarianceAnalyze(settings, fd)))
                          /\ result.anomaly_count # None
                          /\ result.correlation_violations # None

-----------------------------------------------------------------------------
(* The run of the three stages on snapshots with several accounts of a     *)
(* category                                                                *)

NextIds == LoadPairs \/ Analyze \/ Correlate \/ DetectAnomalies

SpecIds == Init /\ [][NextIds]_vars

\* C26: no two anomalies of the list detect returns have the same id,
\* whatever the snapshot, also when a primary account violates a rule
\* against two correlated accounts
C26_UniqueIds ==
    pc = "detected" =>
        \A i, j \in 1..Len(anomalies) : i # j => anomalies[i].id # anomalies[j].id

-----------------------------------------------------------------------------
(* Signs of the two variances *)

Sign(x) == IF x > 0 THEN 1 ELSE IF x < 0 THEN -1 ELSE 0

\* C27 as stated: variance_percent and variance_amount of every
\* VarianceResult have the same sign, also when previous is zero
C27_SameSign ==
    pc = "variance" =>
        \A i \in 1..Len(variance_results) :
            Sign(variance_results[i].variance_percent.n)
                = Sign(variance_results[i].variance_amount)

\* C27: variance_percent and variance_amount of a VarianceResult have the
\* same sign when previous is not zero; when previous is zero the
\* percentage is 100 for every current value other than zero, the negative
\* ones too, and 0 for zero
C27_SameSignNonZeroPrevious ==
    pc = "variance" =>
        \A i \in 1..Len(variance_results) :
            LET result == variance_results[i]
            IN  /\ result.variance_amount = result.current_value - result.previous_value
                /\ IF result.previous_value # 0
                   THEN Sign(result.variance_percent.n) = Sign(result.variance_amount)
                   ELSE result.variance_percent
                            = (IF result.current_value # 0 THEN RInt(100) ELSE RInt(0))

\* a negative balance has grown towards zero: amount and percentage are
\* positive
C27_Witness ==
    /\ pc = "variance"
    /\ Len(variance_results) = 1
    /\ variance_results[1].previous_value = -40
    /\ variance_results[1].current_value = -30
    /\ variance_results[1].variance_amount = 10
    /\ variance_results[1].variance_percent = RInt(25)

-----------------------------------------------------------------------------
(* The run of the three stages on one row, under every threshold           *)
(* configuration                                                           *)

NextSign == LoadRow \/ Analyze \/ Correlate \/ DetectAnomalies

SpecSign == InitVar /\ [][NextSign]_vars

\* C28: in a run of the pipeline every sign_change anomaly of the output
\* comes with a variance anomaly of the same account_code and period
C28_SignChangeHasVariance ==
    pc = "detected" =>
        \A i \in 1..Len(anomalies) :
            anomalies[i].type = "sign_change" =>
                \E j \in 1..Len(anomalies) :
                    /\ anomalies[j].type = "variance"
                    /\ anomalies[j].account_code = anomalies[i].account_code
                    /\ anomalies[j].period = anomalies[i].period

\* the revenue account has left zero under a revenue tolerance of 150%:
\* the sign change is reported, with a variance of 100%
C28_Witness ==
    /\ pc = "detected"
    /\ "account_tolerances" \in DOMAIN settings.thresholds
    /\ "revenue" \in DOMAIN settings.thresholds.account_tolerances
    /\ settings.thresholds.account_tolerances["revenue"] = 150
    /\ \E i \in 1..Len(anomalies) :
          /\ anomalies[i].type = "sign_change"
          /\ anomalies[i].account_code = "511100001"
          /\ anomalies[i].previous_value = Some(0)
          /\ anomalies[i].variance_percent = RInt(100)

-----------------------------------------------------------------------------
(* The rules that can emit *)

\* C29: every CorrelationResult analyze returns belongs to one of the
\* rules 1 to 7 and expects a positive relationship or a quarterly cycle:
\* no account of the catalog has the primary category of a rule 8 to 13
C29_OnlyRulesOneToSeven ==
    pc \in {"correlation", "detected"} =>
        /\ \A i \in 1..Len(correlation_results) :
              /\ correlation_results[i].rule_id \in 1..7
              /\ correlation_results[i].expected_relationship
                    \in {"positive", "quarterly_cycle"}
        /\ \A i \in 8..13 :
              MapperAccountsByCategory(InitializeRules[i].primary_account_category) = <<>>

\* every rule is enabled, revenue and depreciation have moved, and analyze
\* has returned results of the rules 1 and 4 only
C29_Witness ==
    /\ pc = "correlation"
    /\ \A i \in 1..Len(rules) : rules[i].enabled
    /\ HasRow("511100001", <<200000, 208000>>)
    /\ HasRow("632100001", <<50000, 60000>>)
    /\ HasRow("217000001", <<1000000, 920000>>)
    /\ {correlation_results[i].rule_id : i \in 1..Len(correlation_results)} = {1, 4}

====
